---- MODULE Spec2Model ----
(***************************************************************************)
(* The wgpu compute server (command batching, pipeline cache, reads and    *)
(* creates through the queue) together with the deferred-deallocation      *)
(* storage it flushes at every sync.                                       *)
(*                                                                         *)
(* A handler is a pure operator on the record World of all fields; an      *)
(* action applies one handler, whole, and stores the record back.          *)
(***************************************************************************)
EXTENDS Integers, Sequences, FiniteSets, TLC

(* ------------------------------ bounds -------------------------------- *)

\* tasks_max is drawn from 0..MaxTasksMax (RuntimeOptions accepts any usize).
MaxTasksMax == 2
\* Number of execute calls in a run.
MaxExec == 2
\* Number of StorageId::new() calls in a run.
MaxStorages == 2
\* Cap on the staged writes and on the marked deallocations.
MaxPending == 2
\* Threads that call into one ComputeRuntime or one channel.
MaxThreads == 2
\* Calls the threads make on the registry, all together.
MaxCalls == 3
\* Scopes of one kernel, the root included.
MaxScopes == 2
\* Calls made on the scopes, all together.
MaxEmit == 5
\* Helpers called on the context of one kernel.
MaxHelpers == 2
\* Statements of one kernel of lets and tuples.
MaxStatements == 3

(* ------------------------------ inputs -------------------------------- *)

KernelIds == {"k1", "k2"}
ExecutionModes == {"Checked", "Unchecked"}
SyncTypes == {"Flush", "Wait"}
\* A byte of data; buffers are zero before the first write.
Bytes == {0, 1}
ByteMod == Cardinality(Bytes)
\* create(data): data is empty or one byte.
Datas == {<<>>} \cup {<<b>> : b \in Bytes \ {0}}
\* CubeCount::Static(x, y, z): no indirect buffer, a count fixed by the call.
NoBinding == 0
StaticCount == 1

Range(s) == {s[i] : i \in 1..Len(s)}

(* ------------------------------ state --------------------------------- *)

VARIABLES
    \* WgpuServer
    tasks_max,              \* usize
    tasks_count,            \* usize
    current_pass,           \* Option<ComputePass>: TRUE when Some
    encoder,                \* commands recorded into the CommandEncoder
    compute_storage_used,   \* Vec<StorageId>
    pipelines,              \* keys of HashMap<KernelId, Arc<ComputePipeline>>
    \* storage
    memory,                 \* keys of HashMap<StorageId, ptr>
    deallocations,          \* Vec<StorageId>
    \* memory management
    handles,                \* live handles: records [id, size]
    allocated,              \* number of storage ids handed out so far
    \* wgpu queue and device
    staged,                 \* queue.write_buffer_with writes waiting for a submit
    device_busy,            \* the device has submitted work it has not finished
    buffers,                \* contents of every storage once the device has run
                            \* everything submitted so far
    \* history
    dispatched,             \* number of execute calls so far
    submitted,              \* dispatch ids in the order they were submitted
    last_batch,             \* dispatches in the most recent submission
    compiled,               \* compile_source calls per cache key
    requested,              \* cache keys execute was called with
    freed,                  \* free_async calls per storage id
    dealloced,              \* ids dealloc was ever called with
    expect,                 \* contents under program-order semantics
    events,                 \* what the last handler did, in order
    last,                   \* the last call and what it returned
    series,                 \* execute calls and submissions since the last sync
    \* ComputeRuntime
    runtime,                \* the static RUNTIME and the threads calling into it
    \* ComputeChannel
    channel,                \* the channel in front of the server and its callers
    \* Scope
    scopes,                 \* the scopes of one kernel: the root, then its children
    history,                \* what was called on the scopes and what process returned
    \* frontend and compiler
    context,                \* the CubeContext a kernel is expanded into
    shader                  \* what compile_shader made of the kernel

vars == <<tasks_max, tasks_count, current_pass, encoder, compute_storage_used,
          pipelines, memory, deallocations, handles, allocated, staged,
          device_busy, buffers, dispatched, submitted, last_batch, compiled, requested,
          freed, dealloced, expect, events, last, series, runtime,
          channel, scopes, history, context, shader>>

\* The state outside the server and its storage.
others == <<runtime, channel, scopes, history, context, shader>>

\* Ids 1..allocated were returned by alloc; id 0 never is (an id of another
\* storage).
StorageIds == 0..MaxStorages

World ==
    [tasks_max |-> tasks_max, tasks_count |-> tasks_count,
     current_pass |-> current_pass, encoder |-> encoder,
     compute_storage_used |-> compute_storage_used, pipelines |-> pipelines,
     memory |-> memory, deallocations |-> deallocations, handles |-> handles,
     allocated |-> allocated, staged |-> staged, device_busy |-> device_busy,
     buffers |-> buffers, dispatched |-> dispatched, submitted |-> submitted,
     last_batch |-> last_batch, compiled |-> compiled, requested |-> requested,
     freed |-> freed, dealloced |-> dealloced, expect |-> expect,
     events |-> <<>>, last |-> last, series |-> series]

\* The fields of the record become the next state of the server.
BecomesServer(world) ==
    \E w \in {world} :
        /\ tasks_max' = w.tasks_max
        /\ tasks_count' = w.tasks_count
        /\ current_pass' = w.current_pass
        /\ encoder' = w.encoder
        /\ compute_storage_used' = w.compute_storage_used
        /\ pipelines' = w.pipelines
        /\ memory' = w.memory
        /\ deallocations' = w.deallocations
        /\ handles' = w.handles
        /\ allocated' = w.allocated
        /\ staged' = w.staged
        /\ device_busy' = w.device_busy
        /\ buffers' = w.buffers
        /\ dispatched' = w.dispatched
        /\ submitted' = w.submitted
        /\ last_batch' = w.last_batch
        /\ compiled' = w.compiled
        /\ requested' = w.requested
        /\ freed' = w.freed
        /\ dealloced' = w.dealloced
        /\ expect' = w.expect
        /\ events' = w.events
        /\ last' = w.last
        /\ series' = w.series

\* A call made on the server directly.
Becomes(world) == BecomesServer(world) /\ UNCHANGED others

\* A call, the id it was about, the bytes it returned and whether it returned;
\* for sync, the execute calls (k) and submissions (subs) of the series it ends.
Call(op, id, out, ok) ==
    [op |-> op, id |-> id, out |-> out, ok |-> ok, k |-> 0, subs |-> 0]

Submits(w) == Len(SelectSeq(w.events, LAMBDA e : e = "submit"))

(* ------------------------------ device -------------------------------- *)

WriteCmd(s, b) == [op |-> "write", id |-> 0, st |-> <<s>>, dyn |-> NoBinding, val |-> b]
CopyCmd(s) == [op |-> "copy", id |-> 0, st |-> <<s>>, dyn |-> NoBinding, val |-> 0]
DispatchCmd(n, st, dyn) ==
    [op |-> "dispatch", id |-> n, st |-> st, dyn |-> dyn, val |-> StaticCount]

\* The cube count of a dispatch: static, or read on the device from the
\* indirect buffer when the dispatch runs.
CubeCountOf(bufs, c) == IF c.dyn = NoBinding THEN c.val ELSE bufs[c.dyn]

RECURSIVE KernelRun(_, _, _)
\* The kernel adds the cube count to every buffer bound to it.
KernelRun(bufs, st, n) ==
    IF st = <<>> THEN bufs
    ELSE KernelRun([bufs EXCEPT ![Head(st)] = (@ + n) % ByteMod], Tail(st), n)

RunCmd(bufs, c) ==
    CASE c.op = "write" -> [bufs EXCEPT ![c.st[1]] = c.val]
      [] c.op = "dispatch" -> KernelRun(bufs, c.st, CubeCountOf(bufs, c))
      [] OTHER -> bufs

RECURSIVE RunAll(_, _)
RunAll(bufs, cmds) ==
    IF cmds = <<>> THEN bufs ELSE RunAll(RunCmd(bufs, Head(cmds)), Tail(cmds))

DispatchIds(cmds) ==
    LET d == SelectSeq(cmds, LAMBDA c : c.op = "dispatch")
    IN  [i \in 1..Len(d) |-> d[i].id]

\* Every storage a recorded dispatch touches: its bindings and its indirect buffer.
Touched(cmds) ==
    UNION {Range(cmds[i].st) \cup ({cmds[i].dyn} \ {NoBinding}) :
             i \in {j \in 1..Len(cmds) : cmds[j].op = "dispatch"}}

\* queue.submit: the staged writes land first, then the encoder's commands;
\* the device runs them in that order, after everything submitted before.
submit(w, enc) ==
    [w EXCEPT !.buffers = RunAll(@, w.staged \o enc),
              !.device_busy = @ \/ (w.staged \o enc # <<>>),
              !.staged = <<>>,
              !.submitted = @ \o DispatchIds(enc),
              !.last_batch = Len(DispatchIds(enc)),
              !.events = Append(@, "submit")]

\* device.poll(Maintain::Wait): returns once the device is idle.
poll(w) ==
    [w EXCEPT !.device_busy = FALSE,
              !.events = Append(@, "poll")]

(* ------------------------------ storage ------------------------------- *)

RECURSIVE drain(_, _)
drain(w, ids) ==
    IF ids = <<>> THEN w
    ELSE LET id == Head(ids)
             w1 == IF id \in w.memory
                   THEN [w EXCEPT !.memory = @ \ {id},
                                  !.freed[id] = @ + 1,
                                  !.events = Append(@, "free")]
                   ELSE w
         IN  drain(w1, Tail(ids))

\* Faulty variant: frees every marked id without looking it up in memory.
perform_deallocations_Unchecked(w) ==
    LET RECURSIVE free_all(_, _)
        free_all(v, ids) ==
            IF ids = <<>> THEN v
            ELSE free_all([v EXCEPT !.memory = @ \ {Head(ids)},
                                    !.freed[Head(ids)] = @ + 1,
                                    !.events = Append(@, "free")],
                          Tail(ids))
    IN  [free_all([w EXCEPT !.events = Append(@, "perform_deallocations")],
                  w.deallocations)
           EXCEPT !.deallocations = <<>>]

perform_deallocations(w) ==
    [drain([w EXCEPT !.events = Append(@, "perform_deallocations")],
           w.deallocations)
       EXCEPT !.deallocations = <<>>]

dealloc(w, id) ==
    [w EXCEPT !.deallocations = Append(@, id),
              !.dealloced = @ \cup {id}]

\* get: Some(resource) for an id in memory, a panic (unwrap on None) otherwise.
get(w, id) == id \in w.memory

alloc(w) ==
    [w EXCEPT !.allocated = @ + 1,
              !.memory = @ \cup {w.allocated + 1}]

(* ------------------------------ server -------------------------------- *)

\* kernel.id() with kernel_id.mode(mode) applied: the cache key.
KernelKey(kernel, mode) == <<kernel, mode>>

compile_source(w, kernel_id) ==
    [w EXCEPT !.compiled[kernel_id] = @ + 1,
              !.events = Append(@, "compile_source")]

\* Faulty variant: compiles without looking the key up in the cache.
pipeline_NoLookup(w, kernel, mode) ==
    LET kernel_id == KernelKey(kernel, mode)
    IN  [compile_source(w, kernel_id) EXCEPT !.pipelines = @ \cup {kernel_id}]

pipeline(w, kernel, mode) ==
    LET kernel_id == KernelKey(kernel, mode)
    IN  IF kernel_id \in w.pipelines
        THEN w
        ELSE [compile_source(w, kernel_id) EXCEPT !.pipelines = @ \cup {kernel_id}]

\* Faulty variant: the pass stays open.
clear_compute_pass_Keeps(w) == w

clear_compute_pass(w) == [w EXCEPT !.current_pass = FALSE]

create_encoder == <<>>

\* Faulty variant: submits the fresh encoder and drops the recorded one.
sync_SubmitsNewEncoder(w, sync_type) ==
    LET w1 == clear_compute_pass(w)
        w2 == [w1 EXCEPT !.encoder = create_encoder,
                         !.events = Append(@, "create_encoder")]
        w3 == submit(w2, w2.encoder)
        w4 == [w3 EXCEPT !.tasks_count = 0,
                         !.compute_storage_used = <<>>]
        w5 == IF sync_type = "Wait" THEN poll(w4) ELSE w4
    IN  perform_deallocations(w5)

\* Faulty variant: performs the deallocations before it waits for the device.
sync_DeallocatesBeforeWait(w, sync_type) ==
    LET w1 == clear_compute_pass(w)
        encoder_old == w1.encoder
        w2 == [w1 EXCEPT !.encoder = create_encoder,
                         !.events = Append(@, "create_encoder")]
        w3 == submit(w2, encoder_old)
        w4 == [w3 EXCEPT !.tasks_count = 0,
                         !.compute_storage_used = <<>>]
        w5 == perform_deallocations(w4)
    IN  IF sync_type = "Wait" THEN poll(w5) ELSE w5

sync(w, sync_type) ==
    LET w1 == clear_compute_pass(w)
        encoder_old == w1.encoder
        w2 == [w1 EXCEPT !.encoder = create_encoder,
                         !.events = Append(@, "create_encoder")]
        w3 == submit(w2, encoder_old)
        w4 == [w3 EXCEPT !.tasks_count = 0,
                         !.compute_storage_used = <<>>]
        w5 == IF sync_type = "Wait" THEN poll(w4) ELSE w4
    IN  perform_deallocations(w5)

\* read and the reader it returns: the reader waits for the device and hands
\* back the bytes the copy put into the staging buffer.
read(w, binding) ==
    LET w1 == clear_compute_pass(w)
        w2 == [w1 EXCEPT !.encoder = Append(@, CopyCmd(binding.id)),
                         !.events = Append(@, "copy_buffer_to_buffer")]
        w3 == sync(w2, "Flush")
        w4 == poll(w3)
        result == IF binding.size = 0 THEN <<>> ELSE <<w4.buffers[binding.id]>>
    IN  [w4 EXCEPT !.last = Call("read", binding.id, result, TRUE)]

\* memory_management.reserve(size, exclude) may return any storage that no
\* handle uses, that is not marked for deallocation and that exclude does not
\* name, or a freshly allocated one.
Reservable(w, exclude) ==
    {s \in w.memory : /\ s \notin exclude
                      /\ s \notin Range(w.deallocations)
                      /\ \A h \in w.handles : h.id # s}
    \cup (IF w.allocated < MaxStorages THEN {w.allocated + 1} ELSE {})

reserve(w, size, s) ==
    [(IF s \in w.memory THEN w ELSE alloc(w))
       EXCEPT !.handles = @ \cup {[id |-> s, size |-> size]}]

\* The exclusion set create hands to reserve.
create_exclude(w) == Range(w.compute_storage_used)

\* Faulty variant: flushes after the write.
create_ThenFlush(w, data, s) ==
    LET w1 == reserve(w, Len(data), s)
        w2 == IF Len(data) > 0
              THEN [w1 EXCEPT !.staged = Append(@, WriteCmd(s, data[1])),
                              !.expect[s] = data[1],
                              !.events = Append(@, "write_buffer_with")]
              ELSE w1
    IN  sync([w2 EXCEPT !.last = Call("create", s, <<>>, TRUE)], "Flush")

create(w, data, s) ==
    LET w1 == reserve(w, Len(data), s)
        w2 == IF Len(data) > 0
              THEN [w1 EXCEPT !.staged = Append(@, WriteCmd(s, data[1])),
                              !.expect[s] = data[1],
                              !.events = Append(@, "write_buffer_with")]
              ELSE w1
    IN  [w2 EXCEPT !.last = Call("create", s, <<>>, TRUE)]

empty_exclude == {}

empty(w, size, s) ==
    [reserve(w, size, s) EXCEPT !.last = Call("empty", s, <<>>, TRUE)]

\* Faulty variant: flushes only once tasks_count is above tasks_max.
execute_FlushAbove(w, kernel, count, bindings, mode) ==
    LET w1 == pipeline(w, kernel, mode)
        w2 == [w1 EXCEPT !.compute_storage_used = @ \o bindings]
        cmd == DispatchCmd(w.dispatched + 1, bindings, count)
        w3 == [w2 EXCEPT !.tasks_count = @ + 1,
                         !.current_pass = TRUE,
                         !.encoder = Append(@, cmd),
                         !.events = Append(@, "dispatch"),
                         !.dispatched = @ + 1,
                         !.requested = @ \cup {<<kernel, mode>>},
                         !.expect = RunCmd(@, cmd),
                         !.last = Call("execute", w.dispatched + 1, <<>>, TRUE)]
    IN  IF w3.tasks_count > w3.tasks_max THEN sync(w3, "Flush") ELSE w3

\* count is NoBinding for CubeCount::Static and the storage of the binding for
\* CubeCount::Dynamic; bindings are the storages of the bindings, in order.
execute(w, kernel, count, bindings, mode) ==
    LET w1 == pipeline(w, kernel, mode)
        w2 == [w1 EXCEPT !.compute_storage_used = @ \o bindings]
        cmd == DispatchCmd(w.dispatched + 1, bindings, count)
        w3 == [w2 EXCEPT !.tasks_count = @ + 1,
                         !.current_pass = TRUE,
                         !.encoder = Append(@, cmd),
                         !.events = Append(@, "dispatch"),
                         !.dispatched = @ + 1,
                         !.requested = @ \cup {<<kernel, mode>>},
                         !.expect = RunCmd(@, cmd),
                         !.last = Call("execute", w.dispatched + 1, <<>>, TRUE)]
    IN  IF w3.tasks_count >= w3.tasks_max THEN sync(w3, "Flush") ELSE w3

(* --------------------------- ComputeRuntime --------------------------- *)

Threads == 1..MaxThreads
Devices == {"d1", "d2"}
NoClient == 0
NoThread == 0

\* RUNTIME: the registry (clients) behind its lock, and for every calling
\* thread where it is in its call (pc), the device it passed and the client it
\* holds; created counts the clients create_client has built, init_runs the
\* runs of init_fn per device, returned the clients client() has returned.
ComputeRuntime_new ==
    [clients |-> [d \in Devices |-> NoClient],
     lock |-> NoThread,
     pc |-> [t \in Threads |-> "idle"],
     device |-> [t \in Threads |-> "d1"],
     client |-> [t \in Threads |-> NoClient],
     created |-> 0,
     init_runs |-> [d \in Devices |-> 0],
     returned |-> [d \in Devices |-> {}],
     calls |-> 0]

\* A new server behind a new channel behind a new client.
create_client(r, t) ==
    [r EXCEPT !.created = @ + 1, !.client[t] = r.created + 1]

\* Faulty variant: the lock admits a thread while another holds it.
lock_free_Always(r) == TRUE

lock_free(r) == r.lock = NoThread

lock(r, t) == [r EXCEPT !.lock = t]
unlock(r) == [r EXCEPT !.lock = NoThread]

\* client(device, init_fn) under the lock: the lookup.
client_lookup(r, t) ==
    LET d == r.device[t]
    IN  IF r.clients[d] # NoClient
        THEN unlock([r EXCEPT !.client[t] = r.clients[d],
                              !.returned[d] = @ \cup {r.clients[d]},
                              !.pc[t] = "idle"])
        ELSE [r EXCEPT !.pc[t] = "client_init"]

\* client(device, init_fn) under the lock, no client found: init_fn runs and
\* its client is stored and returned.
client_init(r, t) ==
    LET d == r.device[t]
        r1 == create_client(r, t)
    IN  unlock([r1 EXCEPT !.init_runs[d] = @ + 1,
                          !.clients[d] = r1.client[t],
                          !.returned[d] = @ \cup {r1.client[t]},
                          !.pc[t] = "idle"])

\* register(device, client) under the lock: a device that has a client keeps
\* it.
register(r, t) ==
    LET d == r.device[t]
    IN  unlock([r EXCEPT !.clients[d] = IF @ = NoClient THEN r.client[t] ELSE @,
                         !.pc[t] = "idle"])

(* --------------------------- ComputeChannel --------------------------- *)

\* The server as WgpuServer::new leaves it.
WgpuServer_new(max) ==
    [tasks_max |-> max, tasks_count |-> 0, current_pass |-> FALSE,
     encoder |-> create_encoder, compute_storage_used |-> <<>>,
     pipelines |-> {}, memory |-> {}, deallocations |-> <<>>, handles |-> {},
     allocated |-> 0, staged |-> <<>>, device_busy |-> FALSE,
     buffers |-> [s \in StorageIds |-> 0], dispatched |-> 0,
     submitted |-> <<>>, last_batch |-> 0,
     compiled |-> [key \in KernelIds \X ExecutionModes |-> 0],
     requested |-> {}, freed |-> [s \in StorageIds |-> 0], dealloced |-> {},
     expect |-> [s \in StorageIds |-> 0], events |-> <<>>,
     last |-> Call("new", 0, <<>>, TRUE), series |-> [k |-> 0, subs |-> 0]]

\* A call a client sends through the channel.
ServerCall(op, id, data, sync_type) ==
    [op |-> op, id |-> id, data |-> data, sync_type |-> sync_type]

\* The channel: its lock, for every calling thread where it is in its call
\* (pc) and the call it makes, for a thread inside the server the server
\* state its call started from (inside), the calls in the order the channel
\* admitted them and how many of them have returned.
MutexComputeChannel_new ==
    [lock |-> NoThread,
     pc |-> [t \in Threads |-> "idle"],
     call |-> [t \in Threads |-> ServerCall("none", 0, <<>>, "Flush")],
     inside |-> [t \in {} |-> 0],
     admitted |-> <<>>,
     returned |-> 0,
     calls |-> 0]

\* Faulty variant: the channel admits a thread while another is inside.
channel_free_Always(c) == TRUE

channel_free(c) == c.lock = NoThread

\* The server method a call names, on the server state w. The memory manager
\* hands out the next storage.
serve(w, call) ==
    LET v == [w EXCEPT !.events = <<>>]
    IN  CASE call.op = "create" -> create(v, call.data, v.allocated + 1)
          [] call.op = "empty" -> empty(v, 1, v.allocated + 1)
          [] call.op = "execute" ->
                execute(v, "k1", NoBinding, <<call.id>>, "Checked")
          [] call.op = "read" -> read(v, [id |-> call.id, size |-> 1])
          [] call.op = "sync" ->
                [sync(v, call.sync_type)
                    EXCEPT !.last = Call("sync", 0, <<call.sync_type>>, TRUE)]
          [] OTHER -> w

\* The calls applied one after the other.
RECURSIVE serve_all(_, _)
serve_all(w, calls) ==
    IF calls = <<>> THEN w ELSE serve_all(serve(w, Head(calls)), Tail(calls))

(* -------------------------------- Scope ------------------------------- *)

\* Ids are u16.
U16 == 65536

\* A variable by what tells two variables apart: its kind, id and depth (0 for
\* the kinds that have none).
Var(kind, id, depth) == [kind |-> kind, id |-> id, depth |-> depth]
\* Option<Variable>::None
NoVar == Var("None", 0, 0)
GlobalInputArray(index) == Var("GlobalInputArray", index, 0)
GlobalOutputArray(index) == Var("GlobalOutputArray", index, 0)
GlobalScalar(index) == Var("GlobalScalar", index, 0)
\* The position every read and write is made at.
Position == Var("Builtin", 0, 0)

\* An operation: a procedure with its fields, an Assign, or a registered
\* operation, which n tells apart from the others.
Operation(op, n, global, local, position, layout) ==
    [op |-> op, n |-> n, global |-> global, local |-> local,
     position |-> position, layout |-> layout]

Scope_root ==
    [depth |-> 0, operations |-> <<>>, locals |-> <<>>, matrices |-> <<>>,
     slices |-> <<>>, reads_global |-> <<>>,
     index_offset_with_output_layout_position |-> <<>>,
     writes_global |-> <<>>, reads_scalar |-> <<>>, layout_ref |-> NoVar,
     undeclared |-> 0]

\* Faulty variant: the locals already in the list are not counted.
new_local_index_Undeclared(sc) == sc.undeclared % U16

new_local_index(sc) == ((Len(sc.locals) % U16) + sc.undeclared) % U16

new_local_scalar_index(sc) == Len(sc.reads_scalar) % U16

\* The methods that create a variable return the scope and the variable.
create_matrix(sc) ==
    LET variable == Var("Matrix", Len(sc.matrices) % U16, sc.depth)
    IN  [scope |-> [sc EXCEPT !.matrices = Append(@, variable)], out |-> variable]

create_slice(sc) ==
    LET variable == Var("Slice", Len(sc.slices) % U16, sc.depth)
    IN  [scope |-> [sc EXCEPT !.slices = Append(@, variable)], out |-> variable]

create_local(sc) ==
    LET local == Var("Local", new_local_index(sc), sc.depth)
    IN  [scope |-> [sc EXCEPT !.locals = Append(@, local)], out |-> local]

\* Faulty variant: the local is declared like any other.
create_local_undeclared_Declared(sc) ==
    LET local == Var("Local", new_local_index(sc), sc.depth)
    IN  [scope |-> [sc EXCEPT !.locals = Append(@, local)], out |-> local]

create_local_undeclared(sc) ==
    LET local == Var("Local", new_local_index(sc), sc.depth)
    IN  [scope |-> [sc EXCEPT !.undeclared = (@ + 1) % U16], out |-> local]

read_input_strategy(sc, index, strategy, position) ==
    LET input == GlobalInputArray(index)
        local == Var("Local", new_local_index(sc), sc.depth)
    IN  [scope |-> [sc EXCEPT !.reads_global =
                                  Append(@, [input |-> input, strategy |-> strategy,
                                             local |-> local, position |-> position]),
                              !.locals = Append(@, local)],
         out |-> local]

read_array(sc, index, position) ==
    read_input_strategy(sc, index, "OutputLayout", position)

\* The position is the index the procedure gets in operations, from 0.
index_offset_with_output_layout(sc, n) ==
    [sc EXCEPT !.index_offset_with_output_layout_position =
                   Append(@, Len(sc.operations)),
               !.operations =
                   Append(@, Operation("IndexOffsetGlobalWithLayout", n, NoVar,
                                       NoVar, NoVar, NoVar))]

read_scalar(sc, index) ==
    LET local == Var("LocalScalar", new_local_scalar_index(sc), sc.depth)
        scalar == GlobalScalar(index)
    IN  [scope |-> [sc EXCEPT !.reads_scalar =
                                  Append(@, [local |-> local, scalar |-> scalar])],
         out |-> local]

\* Faulty variant: every write moves the layout anchor.
write_global_MovesAnchor(sc, input, output, position) ==
    [sc EXCEPT !.layout_ref = output,
               !.writes_global = Append(@, [input |-> input, output |-> output,
                                            position |-> position])]

write_global(sc, input, output, position) ==
    [sc EXCEPT !.layout_ref = IF @ = NoVar THEN output ELSE @,
               !.writes_global = Append(@, [input |-> input, output |-> output,
                                            position |-> position])]

write_global_custom(sc, output) ==
    [sc EXCEPT !.layout_ref = IF @ = NoVar THEN output ELSE @]

\* The first recorded read of the input array gets the strategy.
update_read(sc, index, strategy) ==
    LET found == {i \in 1..Len(sc.reads_global) : sc.reads_global[i].input.id = index}
    IN  IF found = {} THEN sc
        ELSE LET first == CHOOSE i \in found : \A j \in found : i <= j
             IN  [sc EXCEPT !.reads_global[first].strategy = strategy]

Scope_register(sc, operation) ==
    [sc EXCEPT !.operations = Append(@, operation)]

child(sc) ==
    [Scope_root EXCEPT !.depth = (sc.depth + 1) % 256,
                       !.layout_ref = sc.layout_ref]

\* process(), part by part. The procedures at the recorded positions get the
\* layout anchor.
backfilled(sc) ==
    [i \in 1..Len(sc.operations) |->
        IF /\ (i - 1) \in Range(sc.index_offset_with_output_layout_position)
           /\ sc.operations[i].op = "IndexOffsetGlobalWithLayout"
        THEN [sc.operations[i] EXCEPT !.layout = sc.layout_ref]
        ELSE sc.operations[i]]

\* Faulty variant: the guard is emitted at every depth.
early_return_AnyDepth(sc) ==
    IF sc.writes_global # <<>>
    THEN <<Operation("EarlyReturn", 0, sc.writes_global[1].output, NoVar,
                     sc.writes_global[1].position, NoVar)>>
    ELSE <<>>

early_return(sc) ==
    IF sc.writes_global # <<>> /\ sc.depth = 0
    THEN <<Operation("EarlyReturn", 0, sc.writes_global[1].output, NoVar,
                     sc.writes_global[1].position, NoVar)>>
    ELSE <<>>

\* ReadGlobalWithLayout { globals: [input], layout, outs: [local], position }
\* or ReadGlobal { global: input, out: local, position }.
read_procedures(sc) ==
    [i \in 1..Len(sc.reads_global) |->
        LET r == sc.reads_global[i]
        IN  IF r.strategy = "OutputLayout"
            THEN Operation("ReadGlobalWithLayout", 0, r.input, r.local,
                           r.position, sc.layout_ref)
            ELSE Operation("ReadGlobal", 0, r.input, r.local, r.position, NoVar)]

\* Assign { input: scalar, out: local }
scalar_assigns(sc) ==
    [i \in 1..Len(sc.reads_scalar) |->
        Operation("Assign", 0, sc.reads_scalar[i].scalar,
                  sc.reads_scalar[i].local, NoVar, NoVar)]

\* WriteGlobal { input, global: output, position }
write_procedures(sc) ==
    [i \in 1..Len(sc.writes_global) |->
        LET w == sc.writes_global[i]
        IN  Operation("WriteGlobal", 0, w.output, w.input, w.position, NoVar)]

\* Faulty variant: only the reads are looked at.
layout_missing_ReadsOnly(sc) ==
    /\ sc.layout_ref = NoVar
    /\ \E i \in 1..Len(sc.reads_global) :
          sc.reads_global[i].strategy = "OutputLayout"

\* The two expect() calls on layout_ref.
layout_missing(sc) ==
    /\ sc.layout_ref = NoVar
    /\ \/ \E i \in 1..Len(sc.operations) :
             /\ (i - 1) \in Range(sc.index_offset_with_output_layout_position)
             /\ sc.operations[i].op = "IndexOffsetGlobalWithLayout"
       \/ \E i \in 1..Len(sc.reads_global) :
             sc.reads_global[i].strategy = "OutputLayout"

\* Faulty variant: the recorded writes stay in the scope.
drained_KeepsWrites(sc) ==
    [sc EXCEPT !.undeclared = (@ + (Len(sc.locals) % U16)) % U16,
               !.locals = <<>>, !.matrices = <<>>, !.slices = <<>>,
               !.index_offset_with_output_layout_position = <<>>,
               !.reads_global = <<>>, !.reads_scalar = <<>>,
               !.operations = <<>>]

\* The scope process() leaves behind.
drained(sc) ==
    [sc EXCEPT !.undeclared = (@ + (Len(sc.locals) % U16)) % U16,
               !.locals = <<>>, !.matrices = <<>>, !.slices = <<>>,
               !.index_offset_with_output_layout_position = <<>>,
               !.reads_global = <<>>, !.reads_scalar = <<>>,
               !.operations = <<>>, !.writes_global = <<>>]

\* The peephole pass: it removes the variables found dead and keeps the
\* procedures and the assigns of the scalar reads where they are.
optimize(processing, dead) ==
    [processing EXCEPT !.variables = SelectSeq(@, LAMBDA v : v \notin dead)]

\* Faulty variant: the writes are emitted before the registered operations.
process_WritesFirst(sc, dead) ==
    optimize([scope |-> drained(sc),
              variables |-> sc.locals \o sc.matrices \o sc.slices
                              \o [i \in 1..Len(sc.reads_scalar) |->
                                    sc.reads_scalar[i].local],
              operations |-> early_return(sc) \o read_procedures(sc)
                               \o scalar_assigns(sc) \o write_procedures(sc)
                               \o backfilled(sc),
              ok |-> ~layout_missing(sc)], dead)

\* Faulty variant: the scalar reads are emitted after the registered
\* operations.
process_AssignsLate(sc, dead) ==
    optimize([scope |-> drained(sc),
              variables |-> sc.locals \o sc.matrices \o sc.slices
                              \o [i \in 1..Len(sc.reads_scalar) |->
                                    sc.reads_scalar[i].local],
              operations |-> early_return(sc) \o read_procedures(sc)
                               \o backfilled(sc) \o scalar_assigns(sc)
                               \o write_procedures(sc),
              ok |-> ~layout_missing(sc)], dead)

\* process(): the scope it leaves, the ScopeProcessing it returns, and
\* whether it returns at all (ok) or stops at an expect().
process(sc, dead) ==
    optimize([scope |-> drained(sc),
              variables |-> sc.locals \o sc.matrices \o sc.slices
                              \o [i \in 1..Len(sc.reads_scalar) |->
                                    sc.reads_scalar[i].local],
              operations |-> early_return(sc) \o read_procedures(sc)
                               \o scalar_assigns(sc) \o backfilled(sc)
                               \o write_procedures(sc),
              ok |-> ~layout_missing(sc)], dead)

\* What was called on a scope: its parent (0 for the root) and the anchor it
\* got from it, the variables its methods returned with the number of
\* process() calls before each, the outputs passed to write_global and
\* write_global_custom, and for the last process() call the scope it was
\* called on, the parent's anchor then, and what it returned.
Calls_new(parent, inherited) ==
    [parent |-> parent, inherited |-> inherited, created |-> <<>>,
     outputs |-> <<>>, processed |-> 0, input |-> Scope_root,
     parent_layout |-> NoVar, variables |-> <<>>, operations |-> <<>>]

History_new ==
    [of |-> <<Calls_new(0, NoVar)>>,
     last |-> [op |-> "root", scope |-> 1],
     panicked |-> FALSE,
     emitted |-> 0]

(* ----------------------------- CubeContext ---------------------------- *)

ConstantScalar(value) == Var("ConstantScalar", value, 0)

\* Operator::Powf(BinaryOperator { lhs, rhs, out }) and the like; a unary
\* operator has its input in lhs and no rhs.
Operator(op, lhs, rhs, out) == [op |-> op, lhs |-> lhs, rhs |-> rhs, out |-> out]
\* The branches, with the scopes they carry.
If(cond, scope) == [op |-> "If", cond |-> cond, scope |-> scope]
IfElse(cond, scope_if, scope_else) ==
    [op |-> "IfElse", cond |-> cond, scope_if |-> scope_if, scope_else |-> scope_else]
RangeLoop(i, start, end, step, scope) ==
    [op |-> "RangeLoop", i |-> i, start |-> start, end |-> end, step |-> step,
     scope |-> scope]
Loop(scope) == [op |-> "Loop", scope |-> scope]
Break == [op |-> "Break"]
Return == [op |-> "Return"]

\* No helper was called yet.
NoCall ==
    [op |-> "root", n |-> 0, start |-> NoVar, end |-> NoVar, step |-> NoVar,
     unroll |-> FALSE, comptime_cond |-> "None", runtime_cond |-> NoVar,
     func |-> "nothing", else_func |-> "nothing", cond_fn |-> "path",
     before |-> Scope_root,
     from |-> 0]

\* The context a kernel is expanded into: the scope it writes to, and with
\* it what was done through it so far (events), how many closures deep the
\* expansion is (level), whether it has panicked, what the kernel has bound
\* (env, bindings, source) and the last helper called on it (call).
CubeContext_root ==
    [scope |-> Scope_root, events |-> <<>>, level |-> 0, panicked |-> FALSE,
     env |-> [name \in {"x", "y", "a", "b"} |-> <<>>], bindings |-> <<>>,
     source |-> <<>>, call |-> NoCall]

CubeContext_child(cx) ==
    [cx EXCEPT !.scope = child(cx.scope),
               !.events = Append(@, [ev |-> "child", level |-> cx.level])]

CubeContext_register(cx, operation) ==
    [cx EXCEPT !.scope = Scope_register(@, operation),
               !.events = Append(@, [ev |-> "register", level |-> cx.level,
                                     op |-> operation.op])]

CubeContext_create_local(cx) ==
    LET made == create_local(cx.scope)
    IN  [context |-> [cx EXCEPT !.scope = made.scope], out |-> made.out]

into_scope(cx) == cx.scope

\* The context a helper was called with, once the child context it made has
\* been used.
resumed(cx, inner) == [cx EXCEPT !.events = inner.events]

panic(cx) == [cx EXCEPT !.panicked = TRUE]

(* ------------------------- expansion helpers -------------------------- *)

\* The closures the macro passes to the helpers, by name: the statements of
\* the block each one expands.
Body(func) ==
    CASE func = "nothing" -> <<>>
      [] func = "powf" -> <<[st |-> "operator", op |-> "Powf"]>>
      [] func = "erf" -> <<[st |-> "operator", op |-> "Erf"]>>
      [] func = "nested" -> <<[st |-> "operator", op |-> "Tanh"],
                              [st |-> "if", block |-> "powf"]>>
      [] func = "break_expand" -> <<[st |-> "break"]>>

\* The condition of an if or a while as the macro expands it: a path gives
\* the variable, a binary expression registers the comparison and gives its
\* output.
codegen_cond(cond, cx) ==
    IF cond = "path"
    THEN [context |-> cx, out |-> GlobalScalar(1)]
    ELSE LET made == CubeContext_create_local(cx)
         IN  [context |-> CubeContext_register(
                              made.context,
                              Operator("NotEqual", GlobalScalar(1),
                                       ConstantScalar(0), made.out)),
              out |-> made.out]

RECURSIVE invoke(_, _, _)

RECURSIVE unrolled(_, _, _, _, _)
RECURSIVE unrolled_Inclusive(_, _, _, _, _)
\* Faulty variant: the end of the range is one of its values.
unrolled_Inclusive(cx, i, end, step, func) ==
    IF i > end THEN cx
    ELSE unrolled_Inclusive(invoke(func, cx, ConstantScalar(i)), i + step, end,
                            step, func)

\* `for i in (start..end).step_by(step)`: the closure once per value.
unrolled(cx, i, end, step, func) ==
    IF i >= end THEN cx
    ELSE unrolled(invoke(func, cx, ConstantScalar(i)), i + step, end, step, func)

\* Faulty variant: the index is declared in the child scope.
range_expand_DeclaredIndex(cx, start, end, unroll, func) ==
    IF unroll
    THEN IF start.kind # "ConstantScalar" \/ end.kind # "ConstantScalar"
         THEN panic(cx)
         ELSE unrolled(cx, start.id, end.id, 1, func)
    ELSE LET made == create_local(CubeContext_child(cx).scope)
             inner == invoke(func,
                             [CubeContext_child(cx) EXCEPT !.scope = made.scope],
                             made.out)
         IN  CubeContext_register(
                 resumed(cx, inner),
                 RangeLoop(made.out, start, end, NoVar, into_scope(inner)))

range_expand(cx, start, end, unroll, func) ==
    IF unroll
    THEN IF start.kind # "ConstantScalar" \/ end.kind # "ConstantScalar"
         THEN panic(cx)
         ELSE unrolled(cx, start.id, end.id, 1, func)
    ELSE LET made == create_local_undeclared(CubeContext_child(cx).scope)
             inner == invoke(func,
                             [CubeContext_child(cx) EXCEPT !.scope = made.scope],
                             made.out)
         IN  CubeContext_register(
                 resumed(cx, inner),
                 RangeLoop(made.out, start, end, NoVar, into_scope(inner)))

\* Faulty variant: a step that is not a constant is taken to be 1.
range_stepped_expand_AnyStep(cx, start, end, step, unroll, func) ==
    IF unroll
    THEN IF start.kind # "ConstantScalar" \/ end.kind # "ConstantScalar"
         THEN panic(cx)
         ELSE unrolled(cx, start.id, end.id,
                       IF step.kind = "ConstantScalar" /\ step.id > 0
                       THEN step.id ELSE 1, func)
    ELSE LET made == create_local_undeclared(CubeContext_child(cx).scope)
             inner == invoke(func,
                             [CubeContext_child(cx) EXCEPT !.scope = made.scope],
                             made.out)
         IN  CubeContext_register(
                 resumed(cx, inner),
                 RangeLoop(made.out, start, end, step, into_scope(inner)))

\* step_by(0) panics.
range_stepped_expand(cx, start, end, step, unroll, func) ==
    IF unroll
    THEN IF \/ start.kind # "ConstantScalar"
            \/ end.kind # "ConstantScalar"
            \/ step.kind # "ConstantScalar"
            \/ step.id = 0
         THEN panic(cx)
         ELSE unrolled(cx, start.id, end.id, step.id, func)
    ELSE LET made == create_local_undeclared(CubeContext_child(cx).scope)
             inner == invoke(func,
                             [CubeContext_child(cx) EXCEPT !.scope = made.scope],
                             made.out)
         IN  CubeContext_register(
                 resumed(cx, inner),
                 RangeLoop(made.out, start, end, step, into_scope(inner)))

\* Faulty variant: the block gets a child scope whatever comptime_cond is.
if_expand_AlwaysBranches(cx, comptime_cond, runtime_cond, block) ==
    LET inner == invoke(block, CubeContext_child(cx), NoVar)
    IN  CubeContext_register(resumed(cx, inner),
                             If(runtime_cond, into_scope(inner)))

if_expand(cx, comptime_cond, runtime_cond, block) ==
    CASE comptime_cond = "Some(true)" -> invoke(block, cx, NoVar)
      [] comptime_cond = "Some(false)" -> cx
      [] comptime_cond = "None" ->
            LET inner == invoke(block, CubeContext_child(cx), NoVar)
            IN  CubeContext_register(resumed(cx, inner),
                                     If(runtime_cond, into_scope(inner)))

if_else_expand(cx, comptime_cond, runtime_cond, then_block, else_block) ==
    CASE comptime_cond = "Some(true)" -> invoke(then_block, cx, NoVar)
      [] comptime_cond = "Some(false)" -> invoke(else_block, cx, NoVar)
      [] comptime_cond = "None" ->
            LET then_child == invoke(then_block, CubeContext_child(cx), NoVar)
                else_child == invoke(else_block,
                                     CubeContext_child(resumed(cx, then_child)),
                                     NoVar)
            IN  CubeContext_register(
                    resumed(cx, else_child),
                    IfElse(runtime_cond, into_scope(then_child),
                           into_scope(else_child)))

break_expand(cx) == CubeContext_register(cx, Break)

return_expand(cx) == CubeContext_register(cx, Return)

loop_expand(cx, block) ==
    LET inside_loop == invoke(block, CubeContext_child(cx), NoVar)
    IN  CubeContext_register(resumed(cx, inside_loop), Loop(into_scope(inside_loop)))

\* codegen_while_loop hands the condition over as a closure, which
\* while_loop_expand calls in the child context.
while_loop_expand(cx, cond_fn, block) ==
    LET cond == codegen_cond(cond_fn, CubeContext_child(cx))
        broken == if_expand(cond.context, "None", cond.out, "break_expand")
        inside_loop == invoke(block, broken, NoVar)
    IN  CubeContext_register(resumed(cx, inside_loop), Loop(into_scope(inside_loop)))

\* One statement of a block: an operator on the closure's argument with a
\* new local as output, a runtime if around another block, or a break.
statement(st, cx, arg) ==
    CASE st.st = "operator" ->
            LET made == CubeContext_create_local(cx)
            IN  CubeContext_register(
                    made.context,
                    Operator(st.op, IF arg = NoVar THEN GlobalScalar(0) ELSE arg,
                             ConstantScalar(2), made.out))
      [] st.st = "if" -> if_expand(cx, "None", GlobalScalar(1), st.block)
      [] st.st = "break" -> break_expand(cx)

RECURSIVE run(_, _, _)
run(statements, cx, arg) ==
    IF statements = <<>> THEN cx
    ELSE run(Tail(statements), statement(Head(statements), cx, arg), arg)

\* A call of the closure func with the context cx and the argument arg.
invoke(func, cx, arg) ==
    LET after == run(Body(func), [cx EXCEPT !.level = @ + 1], arg)
    IN  [after EXCEPT
            !.level = cx.level,
            !.events = Append(@, [ev |-> "invoke", level |-> cx.level,
                                  func |-> func, arg |-> arg,
                                  depth |-> cx.scope.depth,
                                  emitted |-> SubSeq(after.scope.operations,
                                                     Len(cx.scope.operations) + 1,
                                                     Len(after.scope.operations))])]

(* ------------------------------ kernels ------------------------------- *)

\* What a kernel can be made of: `let x = UInt::new(val);`,
\* `let x = (UInt::new(val), UInt::new(other));`, `let (a, b) = x;` and a
\* tuple of paths and sums as its last expression. A value is the tuple of
\* its elements, a single element when it is no tuple.
New(val) == [e |-> "new", val |-> val, name |-> ""]
Path(name) == [e |-> "path", val |-> 0, name |-> name]
Add(name, val) == [e |-> "add", val |-> val, name |-> name]

\* Faulty variant: the constant is assigned to a local of its own.
UInt_expand_new_Declared(cx, val) ==
    LET made == CubeContext_create_local(cx)
    IN  [context |-> CubeContext_register(
                         made.context,
                         Operator("Assign", ConstantScalar(val), NoVar, made.out)),
         out |-> made.out]

\* UInt::__expand_new
UInt_expand_new(cx, val) == [context |-> cx, out |-> ConstantScalar(val)]

\* An element that is no local yet gets a new local and an Assign.
init_expand_element(cx, elem) ==
    IF elem.kind = "Local" THEN [context |-> cx, out |-> elem]
    ELSE LET made == CubeContext_create_local(cx)
         IN  [context |-> CubeContext_register(
                              made.context,
                              Operator("Assign", elem, NoVar, made.out)),
              out |-> made.out]

\* Init::init on a value: on each of its elements in turn.
RECURSIVE Init_init(_, _)
Init_init(value, cx) ==
    IF value = <<>> THEN [context |-> cx, out |-> <<>>]
    ELSE LET first == init_expand_element(cx, Head(value))
             rest == Init_init(Tail(value), first.context)
         IN  [context |-> rest.context, out |-> <<first.out>> \o rest.out]

\* An expression that is no tuple: a call of UInt::new, a path, or a sum of
\* a path and a constant, which goes to the local of the path.
codegen_expr(cx, expr) ==
    CASE expr.e = "new" -> UInt_expand_new(cx, expr.val)
      [] expr.e = "path" -> [context |-> cx, out |-> cx.env[expr.name][1]]
      [] expr.e = "add" ->
            LET rhs == UInt_expand_new(cx, expr.val)
                lhs == cx.env[expr.name][1]
            IN  [context |-> CubeContext_register(
                                 rhs.context, Operator("Add", lhs, rhs.out, lhs)),
                 out |-> lhs]

\* `{ let _tuple_0 = ..; let _tuple_1 = ..; (_tuple_0, _tuple_1) }`
RECURSIVE codegen_tuple(_, _)
codegen_tuple(cx, elems) ==
    IF elems = <<>> THEN [context |-> cx, out |-> <<>>]
    ELSE LET first == codegen_expr(cx, Head(elems))
             rest == codegen_tuple(first.context, Tail(elems))
         IN  [context |-> rest.context, out |-> <<first.out>> \o rest.out]

\* `let pat = init;` with pat an identifier or a tuple of identifiers and
\* init the elements of the expression: a tuple pattern is left as it is,
\* an identifier gets the initialized value.
codegen_local(cx, pat, init) ==
    IF Len(pat) > 1
    THEN [cx EXCEPT !.env = [name \in DOMAIN cx.env |->
                                IF \E i \in 1..Len(pat) : pat[i] = name
                                THEN <<cx.env[init[1].name]
                                          [CHOOSE i \in 1..Len(pat) : pat[i] = name]>>
                                ELSE cx.env[name]]]
    ELSE LET inner == codegen_tuple(cx, init)
             inited == Init_init(inner.out, inner.context)
         IN  [inited.context EXCEPT !.env[pat[1]] = inited.out]

\* The operations the tests build by hand for tuple_const and
\* tuple_destructuring.
inline_macro_ref_tuple_const ==
    LET x == create_local(Scope_root)
        y == create_local(x.scope)
    IN  Scope_register(
            Scope_register(y.scope,
                           Operator("Assign", ConstantScalar(0), NoVar, x.out)),
            Operator("Assign", ConstantScalar(1), NoVar, y.out)).operations

inline_macro_ref_tuple_destructuring ==
    LET a == create_local(Scope_root)
        b == create_local(a.scope)
    IN  Scope_register(
            Scope_register(
                Scope_register(b.scope,
                               Operator("Assign", ConstantScalar(0), NoVar, a.out)),
                Operator("Assign", ConstantScalar(1), NoVar, b.out)),
            Operator("Add", a.out, ConstantScalar(1), a.out)).operations

\* The two kernels of the tests, statement by statement.
tuple_const ==
    <<[st |-> "let", pat |-> <<"x">>, init |-> <<New(0)>>],
      [st |-> "let", pat |-> <<"y">>, init |-> <<New(1)>>],
      [st |-> "tuple", pat |-> <<>>, init |-> <<Path("x"), Path("y")>>]>>

tuple_destructuring ==
    <<[st |-> "let", pat |-> <<"x">>, init |-> <<New(0), New(1)>>],
      [st |-> "let", pat |-> <<"a", "b">>, init |-> <<Path("x")>>],
      [st |-> "tuple", pat |-> <<>>, init |-> <<Add("a", 1), Path("b")>>]>>

(* ---------------------------- WgslCompiler ---------------------------- *)

\* Every variable of the kernels here is a scalar f32.
compile_item == [elem |-> "F32", vectorization |-> 1]

compile_variable(value) ==
    [kind |-> value.kind, id |-> value.id, depth |-> value.depth,
     item |-> compile_item]

is_always_scalar(variable) ==
    variable.kind \in {"GlobalScalar", "ConstantScalar", "LocalScalar", "Builtin"}

Extension(ext, item) == [ext |-> ext, item |-> item]

\* The closure of register_extensions: an extension is pushed once.
register_extension(extensions, extension) ==
    IF extension \in Range(extensions) THEN extensions
    ELSE Append(extensions, extension)

RECURSIVE register_each(_, _)
register_each(extensions, found) ==
    IF found = <<>> THEN extensions
    ELSE register_each(register_extension(extensions, Head(found)), Tail(found))

\* The loop of register_extensions over the instructions left, with the
\* extensions found so far; macos is the target the compiler was built for.
RECURSIVE scan(_, _, _)
scan(instructions, extensions, macos) ==
    IF instructions = <<>> THEN extensions
    ELSE LET instruction == Head(instructions)
         IN  scan(Tail(instructions),
                  CASE instruction.op = "Powf" ->
                          register_extension(
                              register_extension(
                                  extensions,
                                  Extension("PowfPrimitive", instruction.out.item)),
                              IF is_always_scalar(instruction.rhs)
                              THEN Extension("PowfScalar", instruction.out.item)
                              ELSE Extension("Powf", instruction.out.item))
                    [] instruction.op = "Erf" ->
                          register_extension(
                              extensions, Extension("Erf", instruction.lhs.item))
                    [] instruction.op = "Tanh" /\ macos ->
                          register_extension(
                              extensions, Extension("SafeTanh", instruction.lhs.item))
                    [] instruction.op = "If" ->
                          register_each(
                              extensions, scan(instruction.instructions, <<>>, macos))
                    [] OTHER -> extensions,
                  macos)

register_extensions(instructions, macos) == scan(instructions, <<>>, macos)

RECURSIVE compile_scope(_)

compile_instruction(value) ==
    [op |-> value.op, lhs |-> compile_variable(value.lhs),
     rhs |-> compile_variable(value.rhs), out |-> compile_variable(value.out)]

compile_branch(branch) ==
    CASE branch.op = "If" ->
            [op |-> "If", cond |-> compile_variable(branch.cond),
             instructions |-> compile_scope(branch.scope)]
      [] branch.op = "IfElse" ->
            [op |-> "IfElse", cond |-> compile_variable(branch.cond),
             instructions_if |-> compile_scope(branch.scope_if),
             instructions_else |-> compile_scope(branch.scope_else)]
      [] branch.op = "Return" -> [op |-> "Return"]
      [] branch.op = "Break" -> [op |-> "Break"]
      [] branch.op = "RangeLoop" ->
            [op |-> "RangeLoop", i |-> compile_variable(branch.i),
             start |-> compile_variable(branch.start),
             end |-> compile_variable(branch.end),
             step |-> IF branch.step = NoVar THEN NoVar
                      ELSE compile_variable(branch.step),
             instructions |-> compile_scope(branch.scope)]
      [] branch.op = "Loop" ->
            [op |-> "Loop", instructions |-> compile_scope(branch.scope)]

compile_operation(operation) ==
    IF operation.op \in {"If", "IfElse", "Return", "Break", "RangeLoop", "Loop"}
    THEN compile_branch(operation)
    ELSE compile_instruction(operation)

\* The declarations of the variables process() returns, slices left out,
\* then the operations; the peephole pass finds nothing dead.
compile_scope(value) ==
    LET processing == process(value, {})
        declared == SelectSeq(processing.variables, LAMBDA var : var.kind # "Slice")
    IN  [i \in 1..Len(declared) |->
            [op |-> "DeclareVariable", var |-> compile_variable(declared[i])]]
          \o [i \in 1..Len(processing.operations) |->
                compile_operation(processing.operations[i])]

\* No shader was compiled yet.
WgslCompiler_new ==
    [compiled |-> FALSE, macos |-> FALSE, instructions |-> <<>>,
     extensions |-> <<>>]

compile_shader(body, macos) ==
    LET instructions == compile_scope(body)
    IN  [compiled |-> TRUE, macos |-> macos, instructions |-> instructions,
         extensions |-> register_extensions(instructions, macos)]

(* ------------------------------ actions ------------------------------- *)

Init ==
    /\ tasks_max \in 0..MaxTasksMax
    /\ tasks_count = 0
    /\ current_pass = FALSE
    /\ encoder = create_encoder
    /\ compute_storage_used = <<>>
    /\ pipelines = {}
    /\ memory = {}
    /\ deallocations = <<>>
    /\ handles = {}
    /\ allocated = 0
    /\ staged = <<>>
    /\ device_busy = FALSE
    /\ buffers = [s \in StorageIds |-> 0]
    /\ dispatched = 0
    /\ submitted = <<>>
    /\ last_batch = 0
    /\ compiled = [key \in KernelIds \X ExecutionModes |-> 0]
    /\ requested = {}
    /\ freed = [s \in StorageIds |-> 0]
    /\ dealloced = {}
    /\ expect = [s \in StorageIds |-> 0]
    /\ events = <<>>
    /\ last = Call("new", 0, <<>>, TRUE)
    /\ series = [k |-> 0, subs |-> 0]
    /\ runtime = ComputeRuntime_new
    /\ channel = MutexComputeChannel_new
    /\ scopes = <<Scope_root>>
    /\ history = History_new
    /\ context = CubeContext_root
    /\ shader = WgslCompiler_new

Create(data, s) ==
    /\ Len(staged) + Len(data) <= MaxPending
    /\ s \in Reservable(World, create_exclude(World))
    /\ Becomes(create(World, data, s))

Empty(size, s) ==
    /\ s \in Reservable(World, empty_exclude)
    /\ Becomes(empty(World, size, s))

Execute(kernel, count, bindings, mode) ==
    /\ dispatched < MaxExec
    /\ Range(bindings) \cup ({count} \ {NoBinding}) \subseteq {h.id : h \in handles}
    /\ LET w == execute(World, kernel, count, bindings, mode)
       IN  Becomes([w EXCEPT !.series = [k |-> @.k + 1, subs |-> @.subs + Submits(w)]])

Read(h) ==
    /\ h \in handles
    /\ Becomes([read(World, h) EXCEPT !.series = [k |-> 0, subs |-> 0]])

Sync(sync_type) ==
    LET w == sync(World, sync_type)
    IN  Becomes([w EXCEPT !.last = [Call("sync", 0, <<>>, TRUE)
                                      EXCEPT !.k = series.k,
                                             !.subs = series.subs + Submits(w),
                                             !.out = <<sync_type>>],
                          !.series = [k |-> 0, subs |-> 0]])

\* The client drops a handle; its memory can be reserved again.
Drop(h) ==
    /\ h \in handles
    /\ Becomes([World EXCEPT !.handles = @ \ {h},
                             !.last = Call("drop", h.id, <<>>, TRUE)])

\* storage.dealloc(id), on a storage no handle uses.
Dealloc(id) ==
    /\ id \in 0..allocated
    /\ \A h \in handles : h.id # id
    /\ Len(deallocations) < MaxPending
    /\ Becomes([dealloc(World, id) EXCEPT !.last = Call("dealloc", id, <<>>, TRUE)])

\* storage.get(handle) with a handle of the given id.
Get(id) ==
    /\ id \in 0..allocated
    /\ Becomes([World EXCEPT !.last = Call("get", id, <<>>, get(World, id))])

\* The device finishes the work submitted to it.
DeviceStep ==
    /\ device_busy
    /\ device_busy' = FALSE
    /\ UNCHANGED <<tasks_max, tasks_count, current_pass, encoder,
                   compute_storage_used, pipelines, memory, deallocations,
                   handles, allocated, staged, buffers, dispatched, submitted,
                   last_batch, compiled, requested, freed, dealloced, expect,
                   events, last, series>>
    /\ UNCHANGED others

\* The bindings of a dispatch, as the storages they live on.
BindingLists == {<<a>> : a \in 1..MaxStorages}
                  \cup {<<a, b>> : a \in 1..MaxStorages, b \in 1..MaxStorages}
\* CubeCount::Static, or CubeCount::Dynamic with the binding's storage.
CubeCounts == {NoBinding} \cup (1..MaxStorages)

\* The server with its memory management and the device: every server call on
\* every kind of buffer and cube count. pipeline() reads and writes nothing but
\* the cache, so one kernel stands for all here.
Next ==
    \/ \E data \in Datas, s \in StorageIds : Create(data, s)
    \/ \E size \in {1}, s \in StorageIds : Empty(size, s)
    \/ \E count \in CubeCounts, bindings \in BindingLists :
            Execute("k1", count, bindings, "Checked")
    \/ \E h \in handles : Read(h)
    \/ \E sync_type \in SyncTypes : Sync(sync_type)
    \/ \E h \in handles : Drop(h)
    \/ DeviceStep

Spec == Init /\ [][Next]_vars

\* The pipeline cache: every kernel under every mode.
CacheNext ==
    \/ \E s \in StorageIds : Empty(1, s)
    \/ \E kernel \in KernelIds, mode \in ExecutionModes, s \in 1..MaxStorages :
            Execute(kernel, NoBinding, <<s>>, mode)
    \/ \E sync_type \in SyncTypes : Sync(sync_type)

CacheSpec == Init /\ [][CacheNext]_vars

\* The storage under the server: allocations, marked deallocations, direct
\* gets, and the syncs that perform the deallocations.
StorageNext ==
    \/ \E size \in {0, 1}, s \in StorageIds : Empty(size, s)
    \/ \E s \in 1..MaxStorages : Execute("k1", NoBinding, <<s>>, "Checked")
    \/ \E sync_type \in SyncTypes : Sync(sync_type)
    \/ \E h \in handles : Drop(h)
    \/ \E id \in StorageIds : Dealloc(id)
    \/ \E id \in StorageIds : Get(id)

StorageSpec == Init /\ [][StorageNext]_vars

(* ----------------------- ComputeRuntime actions ----------------------- *)

server_vars == <<tasks_max, tasks_count, current_pass, encoder,
                 compute_storage_used, pipelines, memory, deallocations,
                 handles, allocated, staged, device_busy, buffers, dispatched,
                 submitted, last_batch, compiled, requested, freed, dealloced,
                 expect, events, last, series>>

\* A thread calls WgpuRuntime::client(device).
RuntimeClient(t, d) ==
    /\ runtime.pc[t] = "idle"
    /\ runtime.calls < MaxCalls
    /\ runtime' = [runtime EXCEPT !.pc[t] = "client_lock", !.device[t] = d,
                                  !.calls = @ + 1]
    /\ UNCHANGED <<server_vars, channel, scopes, history, context, shader>>

ClientLock(t) ==
    /\ runtime.pc[t] = "client_lock"
    /\ lock_free(runtime)
    /\ runtime' = [lock(runtime, t) EXCEPT !.pc[t] = "client_get"]
    /\ UNCHANGED <<server_vars, channel, scopes, history, context, shader>>

ClientGet(t) ==
    /\ runtime.pc[t] = "client_get"
    /\ runtime' = client_lookup(runtime, t)
    /\ UNCHANGED <<server_vars, channel, scopes, history, context, shader>>

ClientInit(t) ==
    /\ runtime.pc[t] = "client_init"
    /\ runtime' = client_init(runtime, t)
    /\ UNCHANGED <<server_vars, channel, scopes, history, context, shader>>

\* A thread calls init_async(device, options): the client is built first.
InitAsync(t, d) ==
    /\ runtime.pc[t] = "idle"
    /\ runtime.calls < MaxCalls
    /\ runtime' = [create_client(runtime, t) EXCEPT !.pc[t] = "register_lock",
                                                    !.device[t] = d,
                                                    !.calls = @ + 1]
    /\ UNCHANGED <<server_vars, channel, scopes, history, context, shader>>

RegisterLock(t) ==
    /\ runtime.pc[t] = "register_lock"
    /\ lock_free(runtime)
    /\ runtime' = [lock(runtime, t) EXCEPT !.pc[t] = "register_insert"]
    /\ UNCHANGED <<server_vars, channel, scopes, history, context, shader>>

RegisterInsert(t) ==
    /\ runtime.pc[t] = "register_insert"
    /\ runtime' = register(runtime, t)
    /\ UNCHANGED <<server_vars, channel, scopes, history, context, shader>>

RegistryInit == Init /\ tasks_max = 1

\* Threads calling client and init_async on one ComputeRuntime, interleaved
\* at every step.
RegistryNext ==
    \/ \E t \in Threads, d \in Devices : RuntimeClient(t, d)
    \/ \E t \in Threads : ClientLock(t)
    \/ \E t \in Threads : ClientGet(t)
    \/ \E t \in Threads : ClientInit(t)
    \/ \E t \in Threads, d \in Devices : InitAsync(t, d)
    \/ \E t \in Threads : RegisterLock(t)
    \/ \E t \in Threads : RegisterInsert(t)

RegistrySpec == RegistryInit /\ [][RegistryNext]_vars

(* ----------------------- ComputeChannel actions ----------------------- *)

\* The calls a client can make with the handles the server has given out.
ServerCalls ==
    {ServerCall("create", 0, <<1>>, "Flush"), ServerCall("empty", 0, <<>>, "Flush")}
      \cup {ServerCall("execute", h.id, <<>>, "Flush") : h \in handles}
      \cup {ServerCall("read", h.id, <<>>, "Flush") : h \in {g \in handles : g.size > 0}}
      \cup {ServerCall("sync", 0, <<>>, sync_type) : sync_type \in SyncTypes}

\* Storages the calls on their way to the server will reserve.
Reserving ==
    Cardinality({t \in Threads : channel.call[t].op \in {"create", "empty"}})

\* A thread calls a method of its client.
ChannelCall(t, call) ==
    /\ channel.pc[t] = "idle"
    /\ channel.calls < MaxCalls
    /\ call.op \in {"create", "empty"} => allocated + Reserving < MaxStorages
    /\ channel' = [channel EXCEPT !.pc[t] = "lock", !.call[t] = call,
                                  !.calls = @ + 1]
    /\ UNCHANGED <<server_vars, runtime, scopes, history, context, shader>>

\* The channel admits the call.
ChannelLock(t) ==
    /\ channel.pc[t] = "lock"
    /\ channel_free(channel)
    /\ channel' = [channel EXCEPT !.lock = t, !.pc[t] = "admitted",
                                  !.admitted = Append(@, channel.call[t])]
    /\ UNCHANGED <<server_vars, runtime, scopes, history, context, shader>>

\* The server method starts on the server as it is now.
ServerEnter(t) ==
    /\ channel.pc[t] = "admitted"
    /\ channel' = [channel EXCEPT !.pc[t] = "inside",
                                  !.inside = (t :> [World EXCEPT !.events = events]) @@ @]
    /\ UNCHANGED <<server_vars, runtime, scopes, history, context, shader>>

\* The server method returns, its writes made, and the channel is free again.
ServerReturn(t) ==
    /\ channel.pc[t] = "inside"
    /\ BecomesServer(serve(channel.inside[t], channel.call[t]))
    /\ channel' = [channel EXCEPT !.lock = NoThread, !.pc[t] = "idle",
                                  !.call[t] = ServerCall("none", 0, <<>>, "Flush"),
                                  !.inside = [u \in DOMAIN @ \ {t} |-> @[u]],
                                  !.returned = @ + 1]
    /\ UNCHANGED <<runtime, scopes, history, context, shader>>

ChannelInit == Init /\ tasks_max \in 1..MaxTasksMax

\* Threads calling create, empty, execute, read and sync through clients of
\* one device, interleaved at every step.
ChannelNext ==
    \/ \E t \in Threads : \E call \in ServerCalls : ChannelCall(t, call)
    \/ \E t \in Threads : ChannelLock(t)
    \/ \E t \in Threads : ServerEnter(t)
    \/ \E t \in Threads : ServerReturn(t)

ChannelSpec == ChannelInit /\ [][ChannelNext]_vars

(* ---------------------------- Scope actions --------------------------- *)

ScopeIds == 1..Len(scopes)
Outputs == {GlobalOutputArray(0), GlobalOutputArray(1)}

\* A method was called on scope s: the scope it leaves and what is noted of
\* the call.
Called(op, s, scope, calls) ==
    /\ scopes' = [scopes EXCEPT ![s] = scope]
    /\ history' = [history EXCEPT !.of[s] = calls,
                                  !.last = [op |-> op, scope |-> s],
                                  !.emitted = @ + 1]
    /\ UNCHANGED <<server_vars, runtime, channel, context, shader>>

CanCall(s) ==
    /\ s \in ScopeIds
    /\ ~history.panicked
    /\ history.emitted < MaxEmit

\* A method that returns a new variable was called on scope s.
Created(op, s, returned) ==
    Called(op, s, returned.scope,
           [history.of[s] EXCEPT !.created =
               Append(@, [var |-> returned.out, epoch |-> history.of[s].processed,
                          op |-> op])])

CreateLocal(s) ==
    CanCall(s) /\ Created("create_local", s, create_local(scopes[s]))

CreateLocalUndeclared(s) ==
    CanCall(s)
      /\ Created("create_local_undeclared", s, create_local_undeclared(scopes[s]))

CreateSlice(s) ==
    CanCall(s) /\ Created("create_slice", s, create_slice(scopes[s]))

CreateMatrix(s) ==
    CanCall(s) /\ Created("create_matrix", s, create_matrix(scopes[s]))

ReadArray(s, index) ==
    CanCall(s) /\ Created("read_array", s, read_array(scopes[s], index, Position))

ReadScalar(s, index) ==
    CanCall(s) /\ Created("read_scalar", s, read_scalar(scopes[s], index))

UpdateRead(s, index, strategy) ==
    /\ CanCall(s)
    /\ Called("update_read", s, update_read(scopes[s], index, strategy),
              history.of[s])

\* register(op) with an operation of its own.
Register(s) ==
    /\ CanCall(s)
    /\ Called("register", s,
              Scope_register(scopes[s],
                             Operation("Registered", history.emitted + 1, NoVar,
                                       NoVar, NoVar, NoVar)),
              history.of[s])

IndexOffset(s) ==
    /\ CanCall(s)
    /\ Called("index_offset_with_output_layout", s,
              index_offset_with_output_layout(scopes[s], history.emitted + 1),
              history.of[s])

\* write_global(input, output, position) with an input of its own.
WriteGlobal(s, output) ==
    /\ CanCall(s)
    /\ Called("write_global", s,
              write_global(scopes[s], Var("ConstantScalar", history.emitted + 1, 0),
                           output, Position),
              [history.of[s] EXCEPT !.outputs =
                  Append(@, [call |-> "write_global", output |-> output])])

WriteGlobalCustom(s, output) ==
    /\ CanCall(s)
    /\ Called("write_global_custom", s, write_global_custom(scopes[s], output),
              [history.of[s] EXCEPT !.outputs =
                  Append(@, [call |-> "write_global_custom", output |-> output])])

Child(s) ==
    /\ CanCall(s)
    /\ Len(scopes) < MaxScopes
    /\ scopes' = Append(scopes, child(scopes[s]))
    /\ history' = [history EXCEPT !.of = Append(@, Calls_new(s, scopes[s].layout_ref)),
                                  !.last = [op |-> "child", scope |-> s],
                                  !.emitted = @ + 1]
    /\ UNCHANGED <<server_vars, runtime, channel, context, shader>>

\* process() on scope s; the peephole pass finds the locals in dead dead. A
\* process() that stops at an expect() ends the program.
Process(s, dead) ==
    /\ CanCall(s)
    /\ dead \subseteq Range(scopes[s].locals)
    /\ LET p == process(scopes[s], dead)
           parent == history.of[s].parent
       IN  IF p.ok
           THEN Called("process", s, p.scope,
                       [history.of[s] EXCEPT
                           !.processed = @ + 1,
                           !.input = scopes[s],
                           !.parent_layout = IF parent = 0 THEN NoVar
                                             ELSE scopes[parent].layout_ref,
                           !.variables = p.variables,
                           !.operations = p.operations])
           ELSE /\ history' = [history EXCEPT !.panicked = TRUE,
                                              !.last = [op |-> "panic", scope |-> s],
                                              !.emitted = @ + 1]
                /\ UNCHANGED <<server_vars, runtime, channel, scopes, context, shader>>

ScopeInit == Init /\ tasks_max = 1

\* What process() is given and what it makes of it: reads, scalar reads,
\* registered operations and writes, in the root and in child scopes.
ProcessNext ==
    \/ \E s \in ScopeIds : Child(s)
    \/ \E s \in ScopeIds : ReadArray(s, 0)
    \/ \E s \in ScopeIds : UpdateRead(s, 0, "Plain")
    \/ \E s \in ScopeIds : ReadScalar(s, 0)
    \/ \E s \in ScopeIds : Register(s)
    \/ \E s \in ScopeIds : IndexOffset(s)
    \/ \E s \in ScopeIds, output \in Outputs : WriteGlobal(s, output)
    \/ \E s \in ScopeIds : \E dead \in SUBSET Range(scopes[s].locals) :
            Process(s, dead)

ProcessSpec == ScopeInit /\ [][ProcessNext]_vars

\* The variables of one scope: every method that creates one, before and
\* after process().
VariablesNext ==
    \/ CreateLocal(1)
    \/ CreateLocalUndeclared(1)
    \/ CreateSlice(1)
    \/ CreateMatrix(1)
    \/ ReadArray(1, 0)
    \/ ReadScalar(1, 0)
    \/ WriteGlobalCustom(1, GlobalOutputArray(0))
    \/ \E dead \in SUBSET Range(scopes[1].locals) : Process(1, dead)

VariablesSpec == ScopeInit /\ [][VariablesNext]_vars

\* The layout anchor: writes on a parent and its children, and the reads
\* that use the anchor.
LayoutNext ==
    \/ \E s \in ScopeIds : Child(s)
    \/ \E s \in ScopeIds, output \in Outputs : WriteGlobal(s, output)
    \/ \E s \in ScopeIds, output \in Outputs : WriteGlobalCustom(s, output)
    \/ \E s \in ScopeIds : ReadArray(s, 0)
    \/ \E s \in ScopeIds : \E dead \in SUBSET Range(scopes[s].locals) :
            Process(s, dead)

LayoutSpec == ScopeInit /\ [][LayoutNext]_vars

(* --------------------------- expansion actions ------------------------ *)

Bounds == {ConstantScalar(1), ConstantScalar(3), GlobalScalar(0)}
Steps == {ConstantScalar(0), ConstantScalar(1), GlobalScalar(0)}
Funcs == {"nothing", "powf", "erf", "nested"}
ComptimeConds == {"Some(true)", "Some(false)", "None"}
CondFns == {"path", "binary"}
Names == {"x", "y"}
Vals == {0, 1}

CanExpand ==
    /\ ~context.panicked
    /\ context.call.n < MaxHelpers

\* A helper was called on the context: the context it leaves, with the call
\* noted in it.
Helped(call, cx) ==
    /\ context' = [cx EXCEPT !.call = [call EXCEPT !.n = context.call.n + 1,
                                                   !.before = context.scope,
                                                   !.from = Len(context.events)]]
    /\ UNCHANGED <<server_vars, runtime, channel, scopes, history, shader>>

RangeExpand(start, end, unroll, func) ==
    /\ CanExpand
    /\ Helped([NoCall EXCEPT !.op = "range_expand", !.start = start, !.end = end,
                             !.unroll = unroll, !.func = func],
              range_expand(context, start, end, unroll, func))

RangeSteppedExpand(start, end, step, unroll, func) ==
    /\ CanExpand
    /\ Helped([NoCall EXCEPT !.op = "range_stepped_expand", !.start = start,
                             !.end = end, !.step = step, !.unroll = unroll,
                             !.func = func],
              range_stepped_expand(context, start, end, step, unroll, func))

IfExpand(comptime_cond, block) ==
    /\ CanExpand
    /\ Helped([NoCall EXCEPT !.op = "if_expand", !.comptime_cond = comptime_cond,
                             !.runtime_cond = GlobalScalar(1), !.func = block],
              if_expand(context, comptime_cond, GlobalScalar(1), block))

IfElseExpand(comptime_cond, then_block, else_block) ==
    /\ CanExpand
    /\ Helped([NoCall EXCEPT !.op = "if_else_expand",
                             !.comptime_cond = comptime_cond,
                             !.runtime_cond = GlobalScalar(1),
                             !.func = then_block, !.else_func = else_block],
              if_else_expand(context, comptime_cond, GlobalScalar(1), then_block,
                             else_block))

BreakExpand ==
    /\ CanExpand
    /\ Helped([NoCall EXCEPT !.op = "break_expand"], break_expand(context))

ReturnExpand ==
    /\ CanExpand
    /\ Helped([NoCall EXCEPT !.op = "return_expand"], return_expand(context))

LoopExpand(block) ==
    /\ CanExpand
    /\ Helped([NoCall EXCEPT !.op = "loop_expand", !.func = block],
              loop_expand(context, block))

\* `while cond { block }` as codegen_while_loop expands it.
WhileLoopExpand(cond_fn, block) ==
    /\ CanExpand
    /\ Helped([NoCall EXCEPT !.op = "while_loop_expand", !.cond_fn = cond_fn,
                             !.func = block],
              while_loop_expand(context, cond_fn, block))

\* An operator registered in the kernel's scope, with a new local as output.
RegisterOperator(op, rhs) ==
    /\ CanExpand
    /\ LET made == CubeContext_create_local(context)
       IN  Helped([NoCall EXCEPT !.op = "register"],
                  CubeContext_register(
                      made.context, Operator(op, GlobalScalar(0), rhs, made.out)))

\* A kernel still being written.
CanState ==
    /\ ~context.panicked
    /\ Len(context.source) < MaxStatements

\* One more statement of a kernel.
Stated(st, cx) ==
    /\ context' = [cx EXCEPT !.source = Append(@, st),
                             !.call = [NoCall EXCEPT !.op = st.st,
                                                     !.n = context.call.n,
                                                     !.before = context.scope,
                                                     !.from = Len(context.events)]]
    /\ UNCHANGED <<server_vars, runtime, channel, scopes, history, shader>>

\* `let name = UInt::new(val);`
LetNew(name, val) ==
    /\ CanState
    /\ Stated([st |-> "let", pat |-> <<name>>, init |-> <<New(val)>>],
              [codegen_local(context, <<name>>, <<New(val)>>)
                  EXCEPT !.bindings = Append(@, val)])

\* `let name = (UInt::new(val), UInt::new(other));`
LetTuple(name, val, other) ==
    /\ CanState
    /\ Stated([st |-> "let", pat |-> <<name>>, init |-> <<New(val), New(other)>>],
              [codegen_local(context, <<name>>, <<New(val), New(other)>>)
                  EXCEPT !.bindings = @ \o <<val, other>>])

\* `let (a, b) = name;`
LetPattern(name) ==
    /\ CanState
    /\ Len(context.env[name]) = 2
    /\ Stated([st |-> "let", pat |-> <<"a", "b">>, init |-> <<Path(name)>>],
              codegen_local(context, <<"a", "b">>, <<Path(name)>>))

\* A tuple as the last expression of the kernel.
Tuple(elems) ==
    /\ CanState
    /\ \A i \in 1..Len(elems) : Len(context.env[elems[i].name]) = 1
    /\ Stated([st |-> "tuple", pat |-> <<>>, init |-> elems],
              codegen_tuple(context, elems).context)

\* compile_shader on the kernel expanded so far, by a compiler built for
\* macOS or for another target.
CompileShader(macos) ==
    /\ ~context.panicked
    /\ ~shader.compiled
    /\ shader' = compile_shader(into_scope(context), macos)
    /\ UNCHANGED <<server_vars, runtime, channel, scopes, history, context>>

\* The range helpers, with constant and runtime bounds.
RangeNext ==
    \/ \E start \in Bounds, end \in Bounds, unroll \in BOOLEAN, func \in Funcs :
            RangeExpand(start, end, unroll, func)
    \/ \E start \in Bounds, end \in Bounds, step \in Steps, unroll \in BOOLEAN,
          func \in Funcs :
            RangeSteppedExpand(start, end, step, unroll, func)

RangeSpec == ScopeInit /\ [][RangeNext]_vars

\* The branches and the loops.
BranchNext ==
    \/ \E comptime_cond \in ComptimeConds, block \in Funcs :
            IfExpand(comptime_cond, block)
    \/ \E comptime_cond \in ComptimeConds, then_block \in Funcs, else_block \in Funcs :
            IfElseExpand(comptime_cond, then_block, else_block)
    \/ BreakExpand
    \/ ReturnExpand
    \/ \E block \in Funcs : LoopExpand(block)
    \/ \E cond_fn \in CondFns, block \in Funcs : WhileLoopExpand(cond_fn, block)

BranchSpec == ScopeInit /\ [][BranchNext]_vars

\* Kernels of let statements and tuples.
TupleNext ==
    \/ \E name \in Names, val \in Vals : LetNew(name, val)
    \/ \E val \in Vals, other \in Vals : LetTuple("x", val, other)
    \/ LetPattern("x")
    \/ \E elems \in {<<Path("x"), Path("y")>>, <<Path("a"), Path("b")>>,
                     <<Add("a", 1), Path("b")>>} : Tuple(elems)

TupleSpec == ScopeInit /\ [][TupleNext]_vars

\* Kernels with operators at any depth of branches and loops, compiled.
ShaderNext ==
    \/ \E op \in {"Powf", "Erf", "Tanh"},
          rhs \in {ConstantScalar(2), Var("Local", 0, 0)} : RegisterOperator(op, rhs)
    \/ \E block \in Funcs : IfExpand("None", block)
    \/ \E then_block \in Funcs, else_block \in Funcs :
            IfElseExpand("None", then_block, else_block)
    \/ \E block \in Funcs : LoopExpand(block)
    \/ \E block \in Funcs :
            RangeExpand(ConstantScalar(1), GlobalScalar(0), FALSE, block)
    \/ \E macos \in BOOLEAN : CompileShader(macos)

ShaderSpec == ScopeInit /\ [][ShaderNext]_vars

(* ------------------------------ claims -------------------------------- *)

UpTo(n) == [i \in 1..n |-> i]
Count(s, e) == Len(SelectSeq(s, LAMBDA x : x = e))

\* C1: the dispatches recorded into the encoder since the last submission
\* never exceed tasks_max, neither while they wait in the encoder nor in the
\* batch a submission carries, for every tasks_max the options accept.
C1_BatchWithinTasksMax ==
    /\ Len(DispatchIds(encoder)) <= tasks_max
    /\ last_batch <= tasks_max

\* C2: compile_source has run exactly once for every (kernel id, mode) pair
\* execute was called with and never for another pair, and the cache holds
\* exactly those pairs: a repeated pair compiles nothing, the two modes of one
\* kernel are compiled and cached apart, no entry is dropped or compiled again.
C2_CompiledOncePerPair ==
    /\ pipelines = requested
    /\ \A key \in KernelIds \X ExecutionModes :
         compiled[key] = IF key \in requested THEN 1 ELSE 0

\* Two execute calls with the same pair have run.
C2_Witness ==
    /\ dispatched = 2
    /\ requested = {<<"k1", "Unchecked">>}

\* C4: every dispatch execute recorded is either waiting in the encoder or was
\* submitted, once, and submissions followed by the encoder list the dispatches
\* in the order of the execute calls; after a sync or a read none is waiting.
C4_SubmittedOnceInOrder ==
    /\ submitted \o DispatchIds(encoder) = UpTo(dispatched)
    /\ last.op \in {"sync", "read"} => DispatchIds(encoder) = <<>>

\* A sync has submitted the second of two dispatches that went out in two
\* submissions.
C4_Witness ==
    /\ last.op = "sync"
    /\ submitted = <<1, 2>>
    /\ last_batch = 1

Ceil(k, t) == (k + t - 1) \div t

\* C5 as stated: k execute calls after a sync trigger ceil(k / T) submissions,
\* and the sync that follows one more.
C5_CeilSubmissions ==
    tasks_max >= 1 =>
        /\ series.subs = Ceil(series.k, tasks_max)
        /\ last.op = "sync" => last.subs = Ceil(last.k, tasks_max) + 1

\* C5 as amended: k execute calls after a sync trigger floor(k / T) submissions
\* (k of them when T = 0), and the sync that follows exactly one more.
C5_FloorSubmissions ==
    /\ series.subs = IF tasks_max = 0 THEN series.k ELSE series.k \div tasks_max
    /\ last.op = "sync" =>
         last.subs = (IF tasks_max = 0 THEN last.k ELSE last.k \div tasks_max) + 1

\* A sync has ended a series of two execute calls under tasks_max = 2.
C5_Witness ==
    /\ last.op = "sync"
    /\ tasks_max = 2
    /\ last.k = 2
    /\ last.subs = 2

BytesOf(contents, h) == IF h.size = 0 THEN <<>> ELSE <<contents[h.id]>>

\* C3: when read returns, the pass is closed, the copy was encoded behind all
\* recorded dispatches and the encoder was submitted with it, nothing waits
\* in the encoder or the staging area, and the bytes are those that the
\* creates and executes issued before the read leave in the buffer when they
\* take effect in the order they were called.
C3_ReadReflectsPriorCalls ==
    last.op = "read" =>
        /\ ~current_pass
        /\ encoder = <<>>
        /\ staged = <<>>
        /\ submitted = UpTo(dispatched)
        /\ events = <<"copy_buffer_to_buffer", "create_encoder", "submit",
                      "perform_deallocations", "poll">>
        /\ \A h \in handles : h.id = last.id => last.out = BytesOf(expect, h)

SyncTrace(sync_type) ==
    IF sync_type = "Wait"
    THEN <<"create_encoder", "submit", "poll", "perform_deallocations">>
    ELSE <<"create_encoder", "submit", "perform_deallocations">>

\* C6: after sync of either type no pass is open, the encoder is a fresh one
\* and the old one went to the queue with everything recorded in it,
\* tasks_count is 0, compute_storage_used is empty and perform_deallocations
\* ran once, after the wait for the device when the type is Wait.
C6_SyncLeavesCleanState ==
    last.op = "sync" =>
        /\ ~current_pass
        /\ encoder = <<>>
        /\ submitted = UpTo(dispatched)
        /\ staged = <<>>
        /\ tasks_count = 0
        /\ compute_storage_used = <<>>
        /\ deallocations = <<>>
        /\ SelectSeq(events, LAMBDA e : e # "free") = SyncTrace(last.out[1])
        /\ last.out = <<"Wait">> => ~device_busy

\* A sync of type Wait has closed an open pass and submitted its dispatch.
C6_Witness ==
    /\ last.op = "sync"
    /\ last.out = <<"Wait">>
    /\ last_batch = 1
    /\ tasks_max = 2

\* C7: dealloc only marks; a marked buffer stays allocated until
\* perform_deallocations runs, which sync does once; free is called at most
\* once per id, only for ids that were allocated and marked, and every
\* allocated id that was marked and is no longer waiting has been freed.
C7_DeferredFreeOnce ==
    /\ \A id \in StorageIds :
         /\ freed[id] <= 1
         /\ freed[id] = 1 => id \in 1..allocated /\ id \in dealloced
         /\ id \in memory <=> (id \in 1..allocated /\ freed[id] = 0)
         /\ (id \in 1..allocated /\ id \in dealloced
               /\ id \notin Range(deallocations)) => freed[id] = 1
    /\ last.op = "dealloc" => events = <<>>
    /\ last.op = "sync" =>
         /\ deallocations = <<>>
         /\ Count(events, "perform_deallocations") = 1

\* dealloc(1), an execute on storage 2, then a sync: one free call.
C7_Witness ==
    /\ last.op = "sync"
    /\ last_batch = 1
    /\ tasks_max = 2
    /\ Count(events, "free") = 1
    /\ freed[1] = 1
    /\ 2 \in memory

\* C8: a get with a handle of an id that dealloc was called with returns no
\* resource, before and after perform_deallocations.
C8_NoResourceAfterDealloc ==
    (last.op = "get" /\ last.id \in dealloced) => ~last.ok

\* C9: create submits nothing and leaves tasks_count, the open pass, the
\* encoder, compute_storage_used and the device as they were, for data of any
\* length.
C9_CreateNeverFlushes ==
    [][\A data \in Datas, s \in StorageIds :
         Create(data, s) =>
            /\ UNCHANGED <<tasks_count, current_pass, encoder,
                           compute_storage_used, submitted, last_batch,
                           device_busy, buffers>>
            /\ Count(events', "submit") = 0]_vars

\* A create has written one byte while a pass with one dispatch was open.
C9_Witness ==
    /\ last.op = "create"
    /\ events = <<"write_buffer_with">>
    /\ current_pass
    /\ tasks_count = 1
    /\ Len(encoder) = 1

\* C10: the exclusion set create passes to reserve names every storage a
\* dispatch recorded since the last submission touches, as a binding or as
\* its indirect cube-count buffer, so the storage a create reserves is none of
\* them.
C10_ExclusionCoversInFlight ==
    /\ Touched(encoder) \subseteq create_exclude(World)
    /\ last.op = "create" => last.id \notin Touched(encoder)

\* C11: under any interleaving of client and init_async calls, init_fn has run
\* at most once per device, every client() call for a device returned the
\* client the registry holds for it, and a device that has a client keeps it
\* when it is registered again.
C11_OneClientPerDevice ==
    \A d \in Devices :
        /\ runtime.init_runs[d] <= 1
        /\ runtime.returned[d] \subseteq {runtime.clients[d]}
        /\ NoClient \notin runtime.returned[d]
        /\ runtime.clients[d] <= runtime.created

\* Two client() calls for one device have returned while a registration of
\* that device with another client went through.
C11_Witness ==
    /\ runtime.calls = 3
    /\ \A t \in Threads : runtime.pc[t] = "idle"
    /\ runtime.init_runs["d1"] = 1
    /\ runtime.created = 2
    /\ runtime.clients["d2"] = NoClient
    /\ runtime.returned["d1"] = {1}

\* C12: at most one thread is inside a server method at any time, and the
\* server state is the one the calls that have returned produce when they are
\* applied one after the other in the order the channel admitted them.
C12_CallsRunInAdmissionOrder ==
    /\ Cardinality({t \in Threads : channel.pc[t] = "inside"}) <= 1
    /\ channel.returned <= Len(channel.admitted)
    /\ [World EXCEPT !.events = events]
         = serve_all(WgpuServer_new(tasks_max),
                     SubSeq(channel.admitted, 1, channel.returned))

\* A create has returned, an execute on its buffer is inside the server and
\* another thread waits at the channel with a read of that buffer.
C12_Witness ==
    /\ channel.returned = 1
    /\ Len(channel.admitted) = 2
    /\ channel.admitted[1].op = "create"
    /\ channel.admitted[2].op = "execute"
    /\ \E t \in Threads : channel.pc[t] = "inside"
    /\ \E t \in Threads : channel.pc[t] = "lock" /\ channel.call[t].op = "read"

\* The scopes process() has returned from.
Processed == {s \in ScopeIds : history.of[s].processed > 0}
\* The operations of the given kinds in a list, in its order.
OfKind(ops, kinds) == SelectSeq(ops, LAMBDA o : o.op \in kinds)
ReadKinds == {"ReadGlobal", "ReadGlobalWithLayout"}
RegisteredKinds == {"Registered", "IndexOffsetGlobalWithLayout"}

\* C13: the operations process() returns are the optional EarlyReturn, then
\* one read procedure per deferred global read in recorded order, then the
\* assigns of the scalar reads in recorded order, then the registered
\* operations in registration order, then one WriteGlobal per deferred write
\* in recorded order.
C13_ProcessOrder ==
    \A s \in Processed :
        LET in == history.of[s].input
            ops == history.of[s].operations
            early == OfKind(ops, {"EarlyReturn"})
            reads == OfKind(ops, ReadKinds)
            assigns == OfKind(ops, {"Assign"})
            registered == OfKind(ops, RegisteredKinds)
            writes == OfKind(ops, {"WriteGlobal"})
        IN  /\ ops = early \o reads \o assigns \o registered \o writes
            /\ Len(early) <= 1
            /\ Len(reads) = Len(in.reads_global)
            /\ \A i \in 1..Len(reads) :
                 /\ reads[i].global = in.reads_global[i].input
                 /\ reads[i].local = in.reads_global[i].local
                 /\ reads[i].position = in.reads_global[i].position
                 /\ (reads[i].op = "ReadGlobalWithLayout")
                      = (in.reads_global[i].strategy = "OutputLayout")
            /\ Len(assigns) = Len(in.reads_scalar)
            /\ \A i \in 1..Len(assigns) :
                 /\ assigns[i].global = in.reads_scalar[i].scalar
                 /\ assigns[i].local = in.reads_scalar[i].local
            /\ Len(registered) = Len(in.operations)
            /\ \A i \in 1..Len(registered) :
                 /\ registered[i].op = in.operations[i].op
                 /\ registered[i].n = in.operations[i].n
            /\ Len(writes) = Len(in.writes_global)
            /\ \A i \in 1..Len(writes) :
                 /\ writes[i].global = in.writes_global[i].output
                 /\ writes[i].local = in.writes_global[i].input
                 /\ writes[i].position = in.writes_global[i].position

\* The root was processed with a write, a read, a scalar read and a
\* registered operation in it.
C13_Witness ==
    /\ 1 \in Processed
    /\ Len(history.of[1].operations) = 5
    /\ {history.of[1].operations[i].op : i \in 1..5}
         = {"EarlyReturn", "ReadGlobalWithLayout", "Assign", "Registered",
            "WriteGlobal"}

\* C14 as stated: every scalar-read Assign precedes every operation that is
\* not a scalar-read Assign or the EarlyReturn.
C14_ScalarReadsFirst ==
    \A s \in Processed :
        LET ops == history.of[s].operations
        IN  \A i, j \in 1..Len(ops) :
                (ops[i].op = "Assign" /\ ops[j].op \notin {"Assign", "EarlyReturn"})
                    => i < j

\* C14 as amended: every scalar-read Assign precedes every registered
\* operation and every WriteGlobal, and follows the EarlyReturn and every
\* global read procedure.
C14_ScalarReadsAfterGlobalReads ==
    \A s \in Processed :
        LET ops == history.of[s].operations
        IN  \A i, j \in 1..Len(ops) :
                ops[i].op = "Assign" =>
                    /\ ops[j].op \in RegisteredKinds \cup {"WriteGlobal"} => i < j
                    /\ ops[j].op \in ReadKinds \cup {"EarlyReturn"} => j < i

\* A scope was processed with a global read, a scalar read and a registered
\* operation in it.
C14_Witness ==
    \E s \in Processed :
        LET ops == history.of[s].operations
        IN  /\ Len(ops) = 3
            /\ ops[1].op = "ReadGlobal"
            /\ ops[2].op = "Assign"
            /\ ops[3].op = "Registered"

\* C15: process() emits an EarlyReturn exactly when the scope has depth 0 and
\* a deferred write; it is then the first operation, the only EarlyReturn,
\* and carries the output and position of the first recorded write.
C15_EarlyReturnAtRootWithWrite ==
    \A s \in Processed :
        LET in == history.of[s].input
            ops == history.of[s].operations
            guards == {i \in 1..Len(ops) : ops[i].op = "EarlyReturn"}
        IN  IF in.depth = 0 /\ in.writes_global # <<>>
            THEN /\ guards = {1}
                 /\ ops[1].global = in.writes_global[1].output
                 /\ ops[1].position = in.writes_global[1].position
            ELSE guards = {}

\* The root was processed with a write in it, and a child with a write of
\* its own to another output.
C15_Witness ==
    /\ Processed = {1, 2}
    /\ history.of[1].input.writes_global # <<>>
    /\ history.of[1].input.writes_global[1].output = GlobalOutputArray(1)
    /\ history.of[1].operations[1].op = "EarlyReturn"
    /\ history.of[2].input.depth = 1
    /\ history.of[2].input.writes_global # <<>>
    /\ history.of[2].input.writes_global[1].output = GlobalOutputArray(0)

\* Nothing deferred or registered is left in the scope.
Finalized(sc) ==
    /\ sc.locals = <<>>
    /\ sc.matrices = <<>>
    /\ sc.slices = <<>>
    /\ sc.reads_global = <<>>
    /\ sc.reads_scalar = <<>>
    /\ sc.writes_global = <<>>
    /\ sc.index_offset_with_output_layout_position = <<>>
    /\ sc.operations = <<>>

\* C16: when process() has returned, the scope has its lists empty; and when
\* it was called on a scope that had them empty already, it returned no
\* variable and no operation and left the scope as it was.
C16_ProcessDrainsAndRepeats ==
    history.last.op = "process" =>
        LET s == history.last.scope
        IN  /\ Finalized(scopes[s])
            /\ Finalized(history.of[s].input) =>
                 /\ history.of[s].variables = <<>>
                 /\ history.of[s].operations = <<>>
                 /\ scopes[s] = history.of[s].input

\* process() has returned a second time from the root, called right after a
\* first call that had a read, a scalar read and a write to drain.
C16_Witness ==
    /\ history.last = [op |-> "process", scope |-> 1]
    /\ history.of[1].processed = 2
    /\ Finalized(history.of[1].input)
    /\ history.of[1].input.undeclared = 1
    /\ history.of[1].input.layout_ref # NoVar
    /\ history.emitted = 5

\* C17: no two variables in the list process() returns have the same kind, id
\* and depth.
C17_VariablesDistinct ==
    \A s \in Processed :
        LET variables == history.of[s].variables
        IN  \A i, j \in 1..Len(variables) : i # j => variables[i] # variables[j]

\* process() has returned two locals, with an undeclared local created
\* between them, and the local of a scalar read.
C17_Witness ==
    /\ 1 \in Processed
    /\ history.of[1].variables
         = <<Var("Local", 0, 0), Var("Local", 2, 0), Var("LocalScalar", 0, 0)>>
    /\ Len(history.of[1].created) = 4

\* C18: a variable created in a scope after a process() call differs in kind,
\* id or depth from every variable created in that scope before the call.
C18_NoClashAcrossProcess ==
    \A s \in ScopeIds :
        LET created == history.of[s].created
        IN  \A i, j \in 1..Len(created) :
                created[i].epoch < created[j].epoch => created[i].var # created[j].var

\* The outputs write_global was called with on scope s, in call order.
Writes(s) == SelectSeq(history.of[s].outputs, LAMBDA o : o.call = "write_global")
\* The layouts of the ReadGlobalWithLayout procedures the last process() of
\* scope s returned.
Layouts(s) ==
    {history.of[s].operations[i].layout :
        i \in {k \in 1..Len(history.of[s].operations) :
                 history.of[s].operations[k].op = "ReadGlobalWithLayout"}}

\* C19 as stated: in a scope write_global was called on, layout_ref is the
\* output of the first of these calls, and the ReadGlobalWithLayout
\* procedures process() returns have it as their layout.
C19_AnchorIsFirstWrite ==
    \A s \in ScopeIds :
        Writes(s) # <<>> =>
            /\ scopes[s].layout_ref = Writes(s)[1].output
            /\ Layouts(s) \subseteq {Writes(s)[1].output}

\* The anchor of scope s: the one it got from its parent if it got one, else
\* the output of the first write_global or write_global_custom call on it.
Anchor(s) ==
    IF history.of[s].inherited # NoVar THEN history.of[s].inherited
    ELSE IF history.of[s].outputs # <<>> THEN history.of[s].outputs[1].output
    ELSE NoVar

\* C19 as amended: layout_ref is the anchor the scope got from its parent, or
\* without one the output of the first write_global or write_global_custom
\* call, whatever write_global calls follow, and the ReadGlobalWithLayout
\* procedures process() returns have it as their layout.
C19_AnchorIsFirstSet ==
    \A s \in ScopeIds :
        /\ scopes[s].layout_ref = Anchor(s)
        /\ Layouts(s) \subseteq {Anchor(s)}

\* write_global_custom set the anchor of the root, a write_global to another
\* output followed, and process() returned a ReadGlobalWithLayout.
C19_Witness ==
    /\ Len(history.of[1].outputs) = 2
    /\ history.of[1].outputs[1] = [call |-> "write_global_custom",
                                   output |-> GlobalOutputArray(1)]
    /\ history.of[1].outputs[2] = [call |-> "write_global",
                                   output |-> GlobalOutputArray(0)]
    /\ Layouts(1) = {GlobalOutputArray(1)}

\* C20: when a child scope is processed, its layout_ref is the layout_ref its
\* parent has then.
C20_ChildAnchorIsParentAnchor ==
    \A s \in Processed :
        history.of[s].parent # 0 =>
            history.of[s].input.layout_ref = history.of[s].parent_layout

\* The scope holds a deferred read with the OutputLayout strategy or an
\* index-offset procedure waiting for its layout.
NeedsLayout(sc) ==
    \/ \E i \in 1..Len(sc.reads_global) : sc.reads_global[i].strategy = "OutputLayout"
    \/ \E i \in 1..Len(sc.operations) :
          sc.operations[i].op = "IndexOffsetGlobalWithLayout"

\* C21: process() on a scope without layout_ref that holds an OutputLayout
\* read or an index-offset procedure panics, and no other process() does: a
\* process() that returns gives no ReadGlobalWithLayout or
\* IndexOffsetGlobalWithLayout without a layout, and scopes with Plain reads
\* only are processed without layout_ref.
C21_MissingLayoutPanics ==
    /\ history.last.op = "panic" =>
          /\ scopes[history.last.scope].layout_ref = NoVar
          /\ NeedsLayout(scopes[history.last.scope])
    /\ \A s \in Processed :
          /\ history.of[s].input.layout_ref = NoVar => ~NeedsLayout(history.of[s].input)
          /\ \A i \in 1..Len(history.of[s].operations) :
                history.of[s].operations[i].op
                    \in {"ReadGlobalWithLayout", "IndexOffsetGlobalWithLayout"}
                  => history.of[s].operations[i].layout # NoVar

\* process() stopped on a scope without layout_ref that holds an index-offset
\* procedure and a Plain read, after another scope without layout_ref was
\* processed with a Plain read.
C21_Witness ==
    /\ history.last.op = "panic"
    /\ scopes[history.last.scope].layout_ref = NoVar
    /\ \E i \in 1..Len(scopes[history.last.scope].operations) :
          scopes[history.last.scope].operations[i].op = "IndexOffsetGlobalWithLayout"
    /\ \A i \in 1..Len(scopes[history.last.scope].reads_global) :
          scopes[history.last.scope].reads_global[i].strategy = "Plain"
    /\ \E s \in Processed :
          /\ history.of[s].input.layout_ref = NoVar
          /\ \E i \in 1..Len(history.of[s].operations) :
                history.of[s].operations[i].op = "ReadGlobal"

\* The variables create_local_undeclared returned on scope s.
Undeclared(s) ==
    {history.of[s].created[i].var :
        i \in {k \in 1..Len(history.of[s].created) :
                 history.of[s].created[k].op = "create_local_undeclared"}}

\* C22: create_local_undeclared returns a Local at the depth of the scope,
\* adds one to undeclared and changes nothing else in the scope; no other
\* local created in the scope, before or after, has its id, and process()
\* never returns it among the variables.
C22_UndeclaredLocalIsFresh ==
    /\ [](\A s \in ScopeIds :
            LET created == history.of[s].created
            IN  /\ \A i, j \in 1..Len(created) :
                      /\ i # j
                      /\ created[i].op = "create_local_undeclared"
                      /\ created[j].var.kind = "Local"
                      => created[i].var.id # created[j].var.id
                /\ Undeclared(s) \cap Range(history.of[s].variables) = {})
    /\ [][\A s \in ScopeIds :
            /\ history'.last = [op |-> "create_local_undeclared", scope |-> s]
            /\ history'.emitted # history.emitted
            => LET made == history'.of[s].created[Len(history'.of[s].created)].var
               IN  /\ made.kind = "Local"
                   /\ made.depth = scopes[s].depth
                   /\ scopes'[s] = [scopes[s] EXCEPT !.undeclared = @ + 1]]_vars

\* An undeclared local was created between two declared ones, and process()
\* returned the two declared ones; another undeclared local followed.
C22_Witness ==
    /\ 1 \in Processed
    /\ Len(history.of[1].created) = 4
    /\ history.of[1].created[2].op = "create_local_undeclared"
    /\ history.of[1].created[4].op = "create_local_undeclared"
    /\ history.of[1].created[4].epoch = 1
    /\ history.of[1].variables = <<Var("Local", 0, 0), Var("Local", 2, 0)>>

\* C30: between two calls on the server a compute pass is open exactly when
\* tasks_count is above 0, and compute_storage_used is empty when tasks_count
\* is 0.
C30_PassOpenIffTasksPending ==
    /\ current_pass <=> tasks_count > 0
    /\ tasks_count = 0 => compute_storage_used = <<>>

\* A task is pending in an open pass, with its storage noted, after an
\* earlier batch was submitted.
C30_Witness ==
    /\ tasks_count = 1
    /\ current_pass
    /\ compute_storage_used # <<>>
    /\ dispatched = 2
    /\ Len(submitted) = 1

\* What was done through the context since the last helper was called, and
\* of that what the helper did itself, outside the closures it called.
Since == SubSeq(context.events, context.call.from + 1, Len(context.events))
Own == SelectSeq(Since, LAMBDA e : e.level = 0)
OwnKinds == [k \in 1..Len(Own) |-> Own[k].ev]
\* The operation the current scope ends with.
LastOperation == context.scope.operations[Len(context.scope.operations)]
\* The scope a helper makes for a closure, before the closure is called.
FreshChild(scope, parent) ==
    /\ scope.depth = parent.depth + 1
    /\ scope.layout_ref = parent.layout_ref
    /\ scope.matrices = <<>> /\ scope.slices = <<>> /\ scope.reads_global = <<>>
    /\ scope.index_offset_with_output_layout_position = <<>>
    /\ scope.writes_global = <<>> /\ scope.reads_scalar = <<>>

\* The operations the closure calls registered in the scope they were given,
\* call after call.
RECURSIVE Emissions(_)
Emissions(calls) ==
    IF calls = <<>> THEN <<>> ELSE Head(calls).emitted \o Emissions(Tail(calls))

\* C23: range_expand with unroll and constant bounds s and e calls the body
\* e - s times (not at all when e <= s) with the constants s, s + 1, ..,
\* e - 1 in this order and the context it was given; it makes no child
\* scope and registers nothing itself, so the scope gets the operations of
\* the body calls and nothing else.
C23_UnrolledRangeCallsBodyPerValue ==
    LET call == context.call
        s == call.start.id
        e == call.end.id
        n == IF e > s THEN e - s ELSE 0
    IN  /\ call.op = "range_expand"
        /\ call.unroll
        /\ call.start.kind = "ConstantScalar"
        /\ call.end.kind = "ConstantScalar"
        => /\ ~context.panicked
           /\ OwnKinds = [k \in 1..n |-> "invoke"]
           /\ \A k \in 1..n :
                /\ Own[k].func = call.func
                /\ Own[k].arg = ConstantScalar(s + k - 1)
                /\ Own[k].depth = call.before.depth
           /\ context.scope.depth = call.before.depth
           /\ context.scope.operations = call.before.operations \o Emissions(Own)
           /\ n = 0 => context.scope = call.before

\* range_expand unrolled the range 1..3 over a closure that registers an
\* operator and a branch, in a scope that held an operation already.
C23_Witness ==
    /\ context.call.op = "range_expand"
    /\ context.call.unroll
    /\ context.call.start = ConstantScalar(1)
    /\ context.call.end = ConstantScalar(3)
    /\ context.call.func = "nested"
    /\ context.call.before.operations # <<>>
    /\ Len(context.scope.operations) = Len(context.call.before.operations) + 4

\* C24: range_expand without unroll adds one operation to the current scope,
\* a RangeLoop with the bounds given and no step, and changes nothing else
\* in it; it calls the body once, in a new child scope one level deeper,
\* which the RangeLoop carries with what the body did; i is a Local of the
\* child's depth that is not among the child's locals and has the id of
\* none of them. range_stepped_expand does the same with the step given.
C24_RuntimeRangeRegistersOneLoop ==
    LET call == context.call
        loop == LastOperation
    IN  call.op \in {"range_expand", "range_stepped_expand"} /\ ~call.unroll
        => /\ ~context.panicked
           /\ context.scope = [call.before EXCEPT !.operations = Append(@, loop)]
           /\ loop.op = "RangeLoop"
           /\ loop.start = call.start
           /\ loop.end = call.end
           /\ loop.step = IF call.op = "range_expand" THEN NoVar ELSE call.step
           /\ OwnKinds = <<"child", "invoke", "register">>
           /\ Own[2].func = call.func
           /\ Own[2].arg = loop.i
           /\ Own[2].depth = call.before.depth + 1
           /\ Own[2].emitted = loop.scope.operations
           /\ FreshChild(loop.scope, call.before)
           /\ loop.scope.undeclared = 1
           /\ loop.i.kind = "Local"
           /\ loop.i.depth = loop.scope.depth
           /\ \A k \in 1..Len(loop.scope.locals) :
                /\ loop.scope.locals[k].kind = "Local"
                /\ loop.scope.locals[k].id # loop.i.id

\* range_stepped_expand made a loop with a runtime end and a step around a
\* closure that creates a local, in a scope that held an operation already.
C24_Witness ==
    /\ context.call.op = "range_stepped_expand"
    /\ ~context.call.unroll
    /\ context.call.end = GlobalScalar(0)
    /\ context.call.step = ConstantScalar(1)
    /\ context.call.func = "nested"
    /\ context.call.before.operations # <<>>
    /\ LastOperation.op = "RangeLoop"
    /\ LastOperation.scope.locals # <<>>

\* C25: with comptime_cond Some(b), if_expand and if_else_expand register
\* no branch and make no child scope; the block b selects is called once in
\* the current scope, and no other block (if_expand with Some(false) calls
\* nothing and leaves the scope as it is). With comptime_cond None every
\* block is called once, each in a new child scope, and one If or IfElse
\* with runtime_cond and these scopes is added to the current scope.
C25_BranchesFollowComptimeCond ==
    LET call == context.call
        before == call.before
        branch == LastOperation
    IN  /\ call.op = "if_expand" /\ call.comptime_cond = "Some(false)"
           => Since = <<>> /\ context.scope = before
        /\ call.op \in {"if_expand", "if_else_expand"}
             /\ call.comptime_cond \in {"Some(true)", "Some(false)"}
             /\ ~(call.op = "if_expand" /\ call.comptime_cond = "Some(false)")
           => /\ OwnKinds = <<"invoke">>
              /\ Own[1].func = IF call.comptime_cond = "Some(true)"
                               THEN call.func ELSE call.else_func
              /\ Own[1].depth = before.depth
              /\ context.scope.depth = before.depth
              /\ context.scope.operations = before.operations \o Own[1].emitted
        /\ call.op = "if_expand" /\ call.comptime_cond = "None"
           => /\ OwnKinds = <<"child", "invoke", "register">>
              /\ Own[2].func = call.func
              /\ Own[2].depth = before.depth + 1
              /\ context.scope = [before EXCEPT !.operations = Append(@, branch)]
              /\ branch.op = "If"
              /\ branch.cond = call.runtime_cond
              /\ FreshChild(branch.scope, before)
              /\ branch.scope.operations = Own[2].emitted
        /\ call.op = "if_else_expand" /\ call.comptime_cond = "None"
           => /\ OwnKinds = <<"child", "invoke", "child", "invoke", "register">>
              /\ Own[2].func = call.func
              /\ Own[4].func = call.else_func
              /\ Own[2].depth = before.depth + 1
              /\ Own[4].depth = before.depth + 1
              /\ context.scope = [before EXCEPT !.operations = Append(@, branch)]
              /\ branch.op = "IfElse"
              /\ branch.cond = call.runtime_cond
              /\ FreshChild(branch.scope_if, before)
              /\ FreshChild(branch.scope_else, before)
              /\ branch.scope_if.operations = Own[2].emitted
              /\ branch.scope_else.operations = Own[4].emitted

\* if_else_expand without a comptime condition made an IfElse of two
\* different blocks, after an if_expand with Some(true) had put the
\* operations of its block in the scope.
C25_Witness ==
    /\ context.call.op = "if_else_expand"
    /\ context.call.comptime_cond = "None"
    /\ context.call.func = "powf"
    /\ context.call.else_func = "erf"
    /\ Len(context.scope.operations) = 2
    /\ context.scope.operations[1].op = "Powf"
    /\ context.scope.operations[2].op = "IfElse"
    /\ context.scope.operations[2].scope_else.operations # <<>>

\* C26: `while cond { body }` adds one Loop to the current scope; the scope
\* of the Loop has the operations that evaluate the condition, then an If
\* whose scope is a single Break and whose condition is the negation of the
\* loop condition, then the operations of the body.
C26_WhileBreaksOnNegatedCond ==
    LET call == context.call
        loop == LastOperation
        inner == loop.scope.operations
        ifs == {k \in 1..Len(inner) : inner[k].op = "If"}
        first == CHOOSE k \in ifs : \A other \in ifs : k <= other
    IN  call.op = "while_loop_expand"
        => /\ context.scope = [call.before EXCEPT !.operations = Append(@, loop)]
           /\ loop.op = "Loop"
           /\ ifs # {}
           /\ inner[first].scope.operations = <<Break>>
           /\ \A k \in 1..(first - 1) : inner[k].op \in {"NotEqual", "Not"}
           /\ \E k \in 1..(first - 1) :
                /\ inner[k].op = "Not"
                /\ inner[k].out = inner[first].cond
                /\ inner[k].lhs = IF call.cond_fn = "path" THEN GlobalScalar(1)
                                  ELSE inner[1].out
           /\ SubSeq(inner, first + 1, Len(inner)) = Own[Len(Own) - 1].emitted

\* C27: range_expand and range_stepped_expand with unroll and a start, end
\* or step that is no constant panic with the scope as it was: the body was
\* not called and nothing was registered.
C27_UnrollPanicsOnRuntimeBounds ==
    LET call == context.call
    IN  /\ call.op \in {"range_expand", "range_stepped_expand"}
        /\ call.unroll
        /\ \/ call.start.kind # "ConstantScalar"
           \/ call.end.kind # "ConstantScalar"
           \/ call.op = "range_stepped_expand" /\ call.step.kind # "ConstantScalar"
        => /\ context.panicked
           /\ context.scope = call.before
           /\ Since = <<>>

\* range_stepped_expand panicked on a runtime step between constant bounds,
\* in a scope that held an operation already.
C27_Witness ==
    /\ context.call.op = "range_stepped_expand"
    /\ context.call.unroll
    /\ context.call.start = ConstantScalar(1)
    /\ context.call.end = ConstantScalar(3)
    /\ context.call.step = GlobalScalar(0)
    /\ context.call.func = "powf"
    /\ context.panicked
    /\ context.scope.operations # <<>>

\* The extensions the instructions need, those in the bodies of If, IfElse,
\* Loop and RangeLoop included.
RECURSIVE Required(_, _)
Required(instructions, macos) ==
    UNION {
        LET instruction == instructions[k]
        IN  CASE instruction.op = "Powf" ->
                    {Extension("PowfPrimitive", instruction.out.item),
                     IF is_always_scalar(instruction.rhs)
                     THEN Extension("PowfScalar", instruction.out.item)
                     ELSE Extension("Powf", instruction.out.item)}
              [] instruction.op = "Erf" -> {Extension("Erf", instruction.lhs.item)}
              [] instruction.op = "Tanh" ->
                    IF macos THEN {Extension("SafeTanh", instruction.lhs.item)} ELSE {}
              [] instruction.op \in {"If", "Loop", "RangeLoop"} ->
                    Required(instruction.instructions, macos)
              [] instruction.op = "IfElse" ->
                    Required(instruction.instructions_if, macos)
                      \cup Required(instruction.instructions_else, macos)
              [] OTHER -> {}
        : k \in 1..Len(instructions)}

\* C28: the extensions of a compiled shader are, each once, the extensions
\* its Powf and Erf instructions (and on macOS its Tanh instructions) need,
\* at any depth of If, IfElse, Loop and RangeLoop.
C28_ExtensionsCoverNested ==
    shader.compiled
    => /\ \A i, j \in 1..Len(shader.extensions) :
            i # j => shader.extensions[i] # shader.extensions[j]
       /\ Range(shader.extensions) = Required(shader.instructions, shader.macos)

\* The sums in the elements of a tuple.
Sums(elems) == Len(SelectSeq(elems, LAMBDA expr : expr.e = "add"))

\* C29: the operations of a kernel of lets and tuples are, in source order,
\* one Assign of the constant to a new local for each constant bound, and
\* the sums; no branch is registered, a tuple pattern registers nothing and
\* a tuple registers what its elements register; tuple_const and
\* tuple_destructuring give the operations built by hand.
C29_TupleKernelOperations ==
    LET ops == context.scope.operations
        assigns == OfKind(ops, {"Assign"})
        st == context.source[Len(context.source)]
    IN  context.source # <<>>
        => /\ assigns = [i \in 1..Len(context.bindings) |->
                           Operator("Assign", ConstantScalar(context.bindings[i]),
                                    NoVar, Var("Local", i - 1, 0))]
           /\ \A i \in 1..Len(ops) : ops[i].op \in {"Assign", "Add"}
           /\ Len(st.pat) = 2 => context.scope = context.call.before
           /\ st.st = "tuple"
                => /\ Len(ops) = Len(context.call.before.operations) + Sums(st.init)
                   /\ OfKind(ops, {"Add"})
                        = OfKind(context.call.before.operations, {"Add"})
                            \o [i \in 1..Sums(st.init) |->
                                  Operator("Add", context.env["a"][1],
                                           ConstantScalar(1), context.env["a"][1])]
           /\ context.source = tuple_const => ops = inline_macro_ref_tuple_const
           /\ context.source = tuple_destructuring
                => ops = inline_macro_ref_tuple_destructuring

\* tuple_destructuring was expanded to its end.
C29_Witness ==
    /\ context.source = tuple_destructuring
    /\ Len(context.scope.operations) = 3
    /\ context.env["a"] = <<Var("Local", 0, 0)>>
    /\ context.env["b"] = <<Var("Local", 1, 0)>>

====
